---- MODULE Spec2Model ----
(***************************************************************************)
(* Model of the SEED content authorization and publication pipeline:       *)
(*   - RedactionManager          (redaction_manager.py)                    *)
(*   - GitHubQuarantineManager   (seed_quarantine_github_v2.py)            *)
(*   - PublishingPipeline        (publishing_pipeline.py)                  *)
(*   - AutoRedactionWorkflowV2   (auto_redaction_workflow_v2.py)           *)
(*                                                                         *)
(* Text is a sequence of characters.  Every character of a document        *)
(* carries, next to its value, the index it had in the source file (0 for  *)
(* a character written by a replacement or by the link rewriter), so that  *)
(* properties can tell text that survived from text that was inserted.     *)
(* Matching only ever looks at the character value.                        *)
(***************************************************************************)
EXTENDS Integers, Sequences, FiniteSets, TLC

\* ------------------------------------------------------------------------
\* Text helpers
\* ------------------------------------------------------------------------

\* A tagged character is <<value, sourceIndex>>.
Tag(s) == [i \in 1..Len(s) |-> <<s[i], i>>]

Untag(t) == [i \in 1..Len(t) |-> t[i][1]]

\* Text written by the program (a replacement, a literal of the rewriter).
Inserted(r) == [i \in 1..Len(r) |-> <<r[i], 0>>]

\* content[from..to] (1-based, inclusive); empty when to < from.
Slice(content, from, to) == SubSeq(content, from, to)

\* str.startswith at a position: term occurs in content at index i.
MatchAt(content, term, i) ==
    /\ i >= 1
    /\ i + Len(term) - 1 <= Len(content)
    /\ \A k \in 1..Len(term) : content[i + k - 1][1] = term[k]

\* `term in content` for plain (untagged) text.
Contains(text, term) ==
    \E i \in 1..(Len(text) - Len(term) + 1) :
        \A k \in 1..Len(term) : text[i + k - 1] = term[k]

\* str.find(ch, from): the first index >= from holding ch, 0 when absent.
RECURSIVE FindChar(_, _, _)
FindChar(content, ch, from) ==
    IF from > Len(content) THEN 0
    ELSE IF content[from][1] = ch THEN from
    ELSE FindChar(content, ch, from + 1)

\* ------------------------------------------------------------------------
\* RedactionManager: rules and their application
\* ------------------------------------------------------------------------

\* self.rules is a dict: a sequence of <<term, replacement>> in insertion
\* order, with pairwise different terms.
RuleTerms(rules) == {rules[i][1] : i \in 1..Len(rules)}

RuleIndex(rules, term) ==
    CHOOSE i \in 1..Len(rules) : rules[i][1] = term

\* A list of rules: every assignment appends.
DictSetAppend(rules, term, replacement) == Append(rules, <<term, replacement>>)

\* self.rules[sensitive_term] = replacement: an existing key keeps its
\* position, a new key is appended.
DictSet(rules, term, replacement) ==
    IF term \in RuleTerms(rules)
    THEN [rules EXCEPT ![RuleIndex(rules, term)] = <<term, replacement>>]
    ELSE Append(rules, <<term, replacement>>)

\* del self.rules[sensitive_term]
DictDel(rules, term) ==
    SelectSeq(rules, LAMBDA r : r[1] # term)

MaxTermLen(rules) ==
    IF Len(rules) = 0 THEN 0
    ELSE CHOOSE n \in {Len(rules[i][1]) : i \in 1..Len(rules)} :
            \A i \in 1..Len(rules) : Len(rules[i][1]) <= n

\* The rules in insertion order.
GetRulesUnsorted(rules) == rules

\* The rules whose term has length n, then those of length n-1, ...: a stable
\* sort by descending term length.
RECURSIVE SortedFromLen(_, _)
SortedFromLen(rules, n) ==
    IF n <= 0 THEN <<>>
    ELSE SelectSeq(rules, LAMBDA r : Len(r[1]) = n) \o SortedFromLen(rules, n - 1)

GetSortedRules(rules) == SortedFromLen(rules, MaxTermLen(rules))

\* The number of positions at which the term occurs, overlapping or not.
RECURSIVE CountFromOverlapping(_, _, _)
CountFromOverlapping(content, term, i) ==
    IF i + Len(term) - 1 > Len(content) THEN 0
    ELSE (IF MatchAt(content, term, i) THEN 1 ELSE 0)
            + CountFromOverlapping(content, term, i + 1)

\* str.count: the number of non-overlapping occurrences, scanning from the left.
RECURSIVE CountFrom(_, _, _)
CountFrom(content, term, i) ==
    IF i + Len(term) - 1 > Len(content) THEN 0
    ELSE IF MatchAt(content, term, i)
         THEN 1 + CountFrom(content, term, i + Len(term))
         ELSE CountFrom(content, term, i + 1)

\* str.replace: every non-overlapping occurrence, scanning from the left.
RECURSIVE ReplaceFrom(_, _, _, _)
ReplaceFrom(content, term, replacement, i) ==
    IF i > Len(content) THEN <<>>
    ELSE IF MatchAt(content, term, i)
         THEN Inserted(replacement) \o ReplaceFrom(content, term, replacement, i + Len(term))
         ELSE <<content[i]>> \o ReplaceFrom(content, term, replacement, i + 1)

\* Returns <<content, count>>.
ApplySingleRule(content, sensitive_term, replacement) ==
    LET count == CountFrom(content, sensitive_term, 1)
    IN  IF count > 0
        THEN <<ReplaceFrom(content, sensitive_term, replacement, 1), count>>
        ELSE <<content, count>>

RECURSIVE ApplyRulesFrom(_, _, _, _)
ApplyRulesFrom(sorted, k, redacted_content, total_redactions) ==
    IF k > Len(sorted) THEN <<redacted_content, total_redactions>>
    ELSE LET r == ApplySingleRule(redacted_content, sorted[k][1], sorted[k][2])
         IN  ApplyRulesFrom(sorted, k + 1, r[1], total_redactions + r[2])

\* Returns <<redacted_content, total_redactions>>.
ApplyRedactions(rules, content) ==
    ApplyRulesFrom(GetSortedRules(rules), 1, content, 0)

\* _find_term_occurrences: the positions (from 0) content.find gives, each
\* search starting after the end of the match before it; here from index i.
RECURSIVE FindTermOccurrences(_, _, _)
FindTermOccurrences(content, term, i) ==
    IF i + Len(term) - 1 > Len(content) THEN <<>>
    ELSE IF MatchAt(content, term, i)
         THEN <<i - 1>> \o FindTermOccurrences(content, term, i + Len(term))
         ELSE FindTermOccurrences(content, term, i + 1)

\* preview_redactions: for every rule, in the order of the rules dict, one
\* preview for each occurrence of its term in the content (the context
\* string of a preview is left out).  Here from rule k.
RECURSIVE PreviewRedactions(_, _, _)
PreviewRedactions(rules, k, content) ==
    IF k > Len(rules) THEN <<>>
    ELSE LET positions == FindTermOccurrences(content, rules[k][1], 1)
         IN  [n \in 1..Len(positions) |->
                 [term |-> rules[k][1], replacement |-> rules[k][2],
                  position |-> positions[n]]]
             \o PreviewRedactions(rules, k + 1, content)

\* ------------------------------------------------------------------------
\* PublishingPipeline._transform_carton_links
\* ------------------------------------------------------------------------

MaxOf(S) == CHOOSE n \in S : \A x \in S : x <= n

\* The last index of the run of non-"/" characters that starts at from
\* (from - 1 when content[from] is "/" or from is past the end).
RunEnd(content, from) ==
    LET s == FindChar(content, "/", from)
    IN  IF s = 0 THEN Len(content) ELSE s - 1

LinkOpen == <<"(", ".", ".", "/">>
ItselfSuffix == <<"_", "i", "t", "s", "e", "l", "f", ".", "m", "d", ")">>
MdClose == <<".", "m", "d", ")">>
PublicPrefix == <<"/", "c", "o", "n", "c", "e", "p", "t", "s", "/">>

\* \[([^\]]+)\]\(\.\.\/ at index i: the index of the closing "]", 0 if the
\* head does not match.  [^\]]+ cannot hold a "]", so it ends at the first one.
LinkHead(content, i) ==
    IF i > Len(content) \/ content[i][1] # "[" THEN 0
    ELSE LET j == FindChar(content, "]", i + 1)
         IN  IF j >= i + 2 /\ MatchAt(content, LinkOpen, j + 1) THEN j ELSE 0

NoMatch == [end |-> 0, close |-> 0, g2from |-> 0, g2to |-> 0]

\* pattern = \[([^\]]+)\]\(\.\.\/([^\/]+)\/[^\/]*_itself\.md\)
\* [^\/]+ ends at the first "/"; the greedy [^\/]* backtracks to the last
\* "_itself.md)" inside the run of non-"/" characters that follows.
Pattern1Match(content, i) ==
    LET j == LinkHead(content, i)
        g == j + 5
        k == FindChar(content, "/", g)
        m == RunEnd(content, k + 1)
        P == {p \in (k + 1)..(m - 10) : MatchAt(content, ItselfSuffix, p)}
    IN  IF j = 0 \/ k = 0 \/ k = g \/ P = {} THEN NoMatch
        ELSE [end |-> MaxOf(P) + 10, close |-> j, g2from |-> g, g2to |-> k - 1]

\* pattern2 = \[([^\]]+)\]\(\.\.\/([^\/]+)(?:\/[^\)]*)?\.md\)
\* The greedy [^\/]+ first takes the whole run of non-"/" characters and the
\* optional group the text up to the first ")"; failing that, the engine
\* backtracks [^\/]+ to the last ".md)" inside the run.
Pattern2Match(content, i) ==
    LET j == LinkHead(content, i)
        g == j + 5
        m == RunEnd(content, g)
        q == FindChar(content, ")", m + 2)
        P == {p \in (g + 1)..(m - 3) : MatchAt(content, MdClose, p)}
    IN  IF j = 0 \/ m < g THEN NoMatch
        ELSE IF m < Len(content) /\ q # 0 /\ q - 3 >= m + 2
                /\ MatchAt(content, <<".", "m", "d">>, q - 3)
             THEN [end |-> q, close |-> j, g2from |-> g, g2to |-> m]
        ELSE IF P # {}
             THEN [end |-> MaxOf(P) + 3, close |-> j, g2from |-> g, g2to |-> MaxOf(P) - 1]
        ELSE NoMatch

\* replace_link: f'[{link_text}](/concepts/{concept_name}_itself.md)'.
\* "[", the link text, "](" and the closing "_itself.md)" are the matched
\* characters themselves and keep their source index.
ReplaceLink(content, i, mt) ==
    Slice(content, i, mt.close + 1) \o Inserted(PublicPrefix)
        \o Slice(content, mt.g2from, mt.g2to) \o Slice(content, mt.end - 10, mt.end)

\* replace_link2: same text; only ".md)" is taken from the match.
ReplaceLink2(content, i, mt) ==
    Slice(content, i, mt.close + 1) \o Inserted(PublicPrefix)
        \o Slice(content, mt.g2from, mt.g2to)
        \o Inserted(<<"_", "i", "t", "s", "e", "l", "f">>) \o Slice(content, mt.end - 3, mt.end)

\* re.sub(pattern, replace_link, content): leftmost matches, left to right.
RECURSIVE Sub1From(_, _)
Sub1From(content, i) ==
    IF i > Len(content) THEN <<>>
    ELSE LET mt == Pattern1Match(content, i)
         IN  IF mt.end # 0
             THEN ReplaceLink(content, i, mt) \o Sub1From(content, mt.end + 1)
             ELSE <<content[i]>> \o Sub1From(content, i + 1)

RECURSIVE Sub2From(_, _)
Sub2From(content, i) ==
    IF i > Len(content) THEN <<>>
    ELSE LET mt == Pattern2Match(content, i)
         IN  IF mt.end # 0
             THEN ReplaceLink2(content, i, mt) \o Sub2From(content, mt.end + 1)
             ELSE <<content[i]>> \o Sub2From(content, i + 1)

TransformCartonLinks(content) ==
    LET transformed == Sub1From(content, 1)
    IN  IF Untag(transformed) = Untag(content)
        THEN Sub2From(content, 1)
        ELSE transformed

\* ------------------------------------------------------------------------
\* Bounds and input pools
\* ------------------------------------------------------------------------

NumConcepts == 2
MaxRuns == 2
MaxEnvOps == 1

Concepts == 1..NumConcepts

\* Source texts of the concept files in the repository.
InitialText == <<"S", "x">>
SourceTexts == {InitialText, <<"x">>}

\* (term, replacement) pairs a reviewer may add.
RulePool == {<<(<<"S">>), (<<"R">>)>>}

\* ------------------------------------------------------------------------
\* Python values
\* ------------------------------------------------------------------------

None == "None"

\* dict.get(key, default)
Get(d, key, default) == IF key \in DOMAIN d THEN d[key] ELSE default

\* d[key] = value
Put(d, key, value) ==
    [k \in DOMAIN d \cup {key} |-> IF k = key THEN value ELSE d[k]]

EmptyDict == [k \in {} |-> None]

\* The value None where a dict is expected.
NoneResult == [none |-> TRUE]

IsNone(r) == "none" \in DOMAIN r

\* A set of concepts as a list.  The iteration order of a JSON object is
\* represented by the order of the concept indices.
RECURSIVE ListOf(_)
ListOf(S) ==
    IF S = {} THEN <<>>
    ELSE LET m == CHOOSE x \in S : \A y \in S : x <= y
         IN  <<m>> \o ListOf(S \ {m})

SetOf(list) == {list[i] : i \in 1..Len(list)}

\* ------------------------------------------------------------------------
\* State
\* ------------------------------------------------------------------------

VARIABLES
    remoteLedger,   \* authorized.json on the working branch of the remote
    remoteFiles,    \* concepts/<c>/<c>_itself.md on the working branch of the remote
    public,         \* concepts/<c>_itself.md on the public branch of the remote
    cloneExists,    \* /tmp/carton_clone exists
    localLedger,    \* authorized.json in the clone
    localFiles,     \* concept files in the clone
    metadata,       \* publication_metadata.json in the clone
    rulesFile,      \* redacted.json
    mgrRules,       \* rules of the web server's RedactionManager
    baseline,       \* the change detector's cache of published content
    staging,        \* /tmp/public_staging/concepts
    pc,             \* position of the publish run
    entry,          \* entry point of the run: "workflow" or "pipeline"
    rules,          \* rules of the run's RedactionManager
    authorized,     \* authorized_concepts of the run
    needing,        \* concepts_needing_redaction of the run
    processed,      \* processed_concepts of the run
    totalRedactions,\* total_redactions of the run
    filesProcessed, \* files_processed of the run
    uploaded,       \* files the run's upload step put on the public branch
    pubResult,      \* publication_result
    result,         \* what the entry point returned
    advanceCalls,   \* arguments of the run's update_all_published_content calls
    baselineAtStart,\* the baseline when the run started
    prev,           \* summary of the previous run
    nRuns, nEnvOps,
    calls,          \* the pipeline steps the run has called, in order
    rulesFileState, \* redacted.json is "absent", "unparsable" or "json"
    opResult,       \* the last call on the web server's managers and what it returned
    returned,       \* the mapping the last get_rules call returned, in its caller's hands
    arRules,        \* rules of a RedactionManager whose apply_redactions is called
    arContent,      \* the content handed to its first apply_redactions call
    arResults,      \* what its successive apply_redactions calls returned
    race            \* two processes changing statuses: their positions and working copies

remoteVars == <<remoteLedger, remoteFiles, public>>
cloneVars == <<cloneExists, localLedger, localFiles, metadata>>
ruleVars == <<rulesFile, mgrRules, rulesFileState>>
requestVars == <<opResult, returned>>
applyVars == <<arRules, arContent, arResults>>
asideVars == <<applyVars, race>>
runVars == <<pc, entry, rules, authorized, needing, processed, totalRedactions,
             filesProcessed, uploaded,
             pubResult, result, advanceCalls, baselineAtStart, calls>>
countVars == <<nRuns, nEnvOps>>
vars == <<remoteVars, cloneVars, ruleVars, baseline, staging, runVars, prev, countVars,
          requestVars, asideVars>>

\* ------------------------------------------------------------------------
\* GitHubQuarantineManager: the ledger (authorized.json)
\* ------------------------------------------------------------------------

Statuses == {"QUARANTINED", "AUTHORIZED", "REJECTED", "NEEDS_REVISION", "NEEDS_REDACT"}

StatusOf(data, c) ==
    IF c \in DOMAIN data THEN Get(data[c], "status", None) ELSE None

\* _scan_all_concepts: the concept directories of the working copy.
ScanAllConcepts(files) == ListOf(DOMAIN files)

\* Nothing is added for the concepts that have no entry.
AddMissingConceptsNone(all_concepts, authorized_data) == authorized_data

\* Every scanned concept gets the QUARANTINED entry, tracked or not.
AddMissingConceptsOverwriting(all_concepts, authorized_data) ==
    [c \in DOMAIN authorized_data \cup SetOf(all_concepts) |->
        IF c \in SetOf(all_concepts)
        THEN [concept_name |-> c, status |-> "QUARANTINED", reviewer |-> None, reason |-> None]
        ELSE authorized_data[c]]

\* _add_missing_concepts
RECURSIVE AddMissingConcepts(_, _)
AddMissingConcepts(all_concepts, authorized_data) ==
    IF Len(all_concepts) = 0 THEN authorized_data
    ELSE LET concept_name == Head(all_concepts)
             entry0 == [concept_name |-> concept_name, status |-> "QUARANTINED",
                        reviewer |-> None, reason |-> None]
         IN  AddMissingConcepts(Tail(all_concepts),
                IF concept_name \notin DOMAIN authorized_data
                THEN Put(authorized_data, concept_name, entry0)
                ELSE authorized_data)

\* An entry that has a status keeps it.
UpdateConceptStatusKeepsStatus(authorized_data, concept_name, status, reviewer, reason) ==
    IF concept_name \in DOMAIN authorized_data
    THEN authorized_data
    ELSE Put(authorized_data, concept_name, Put(EmptyDict, "status", status))

\* A status change that writes a ledger with the entry of its concept alone.
UpdateConceptStatusAlone(authorized_data, concept_name, status, reviewer, reason) ==
    LET e1 == Put(EmptyDict, "status", status)
        e2 == IF reviewer # None THEN Put(e1, "reviewer", reviewer) ELSE e1
        e3 == IF reason # None THEN Put(e2, "reason", reason) ELSE e2
    IN  Put(EmptyDict, concept_name, e3)

\* _update_concept_status
UpdateConceptStatus(authorized_data, concept_name, status, reviewer, reason) ==
    LET e0 == IF concept_name \in DOMAIN authorized_data
              THEN authorized_data[concept_name] ELSE EmptyDict
        e1 == Put(e0, "status", status)
        e2 == IF reviewer # None THEN Put(e1, "reviewer", reviewer) ELSE e1
        e3 == IF reason # None THEN Put(e2, "reason", reason) ELSE e2
    IN  Put(authorized_data, concept_name, e3)

\* The four status-change entry points as the web server calls them
\* (ApprovalRequest.reviewer, RejectionRequest.reason): <<status, reviewer, reason>>.
\* publishing_authorize_for_publishing, publishing_reject_concept,
\* publishing_needs_revision_concept, publishing_needs_redact_concept.
TransitionCalls ==
    { <<"AUTHORIZED", "isaac", "Approved for publication">>,
      <<"REJECTED", None, "Not suitable for publication">>,
      <<"NEEDS_REVISION", None, "Not suitable for publication">>,
      <<"NEEDS_REDACT", None, "Not suitable for publication">> }

\* Variant: concepts marked for redaction are taken as publishable too.
IsAuthorizedEntryLax(entry_data) ==
    Get(entry_data, "status", None) \in {"AUTHORIZED", "NEEDS_REDACT"}

\* _filter_authorized_entries / the loops of _get_authorized_concepts and
\* _get_authorized_concept_names.
IsAuthorizedEntry(entry_data) ==
    Get(entry_data, "status", None) = "AUTHORIZED"

AuthorizedNames(authorized_data) ==
    ListOf({c \in DOMAIN authorized_data : IsAuthorizedEntry(authorized_data[c])})

\* The concepts directory of the clone exists (git tracks files only).
ConceptsDirExists(exists, files) == exists /\ DOMAIN files # {}

\* ------------------------------------------------------------------------
\* Change detector (ContentDifferV2): its contract
\* ------------------------------------------------------------------------

Changed(c, files, cache) ==
    IF c \in DOMAIN files
    THEN c \notin DOMAIN cache \/ cache[c] # files[c]
    ELSE c \in DOMAIN cache

GetConceptsNeedingRedaction(authorized_names, files, cache) ==
    SelectSeq(authorized_names, LAMBDA c : Changed(c, files, cache))

UpdateAllPublishedContent(published_names, files, cache) ==
    [c \in DOMAIN cache \cup (SetOf(published_names) \cap DOMAIN files) |->
        IF c \in SetOf(published_names) /\ c \in DOMAIN files THEN files[c] ELSE cache[c]]

\* ------------------------------------------------------------------------
\* PublishingPipeline
\* ------------------------------------------------------------------------

\* A file that exists and that open() or read() fails on (no permission,
\* bytes that are not UTF-8).
UnreadableFile == <<<<"unreadable", 0>>>>

\* RedactionManager.apply_redactions_to_file: a file that cannot be read
\* gives "", 0.
ApplyRedactionsToFile(ruleset, content) ==
    IF content = UnreadableFile
    THEN <<(<<>>), 0>>
    ELSE ApplyRedactions(ruleset, content)

\* _copy_and_redact_concept
CopyAndRedactConcept(ruleset, files, concept_name) ==
    IF concept_name \notin DOMAIN files
    THEN [ok |-> FALSE, count |-> 0, content |-> <<>>]
    ELSE LET r == ApplyRedactionsToFile(ruleset, files[concept_name])
         IN  [ok |-> TRUE, count |-> r[2], content |-> TransformCartonLinks(r[1])]

\* Variant: the loop stops at the first concept that cannot be copied.
RECURSIVE ProcessFromStopAtFailure(_, _, _, _, _)
ProcessFromStopAtFailure(ruleset, files, authorized_concepts, k, acc) ==
    IF k > Len(authorized_concepts) THEN acc
    ELSE LET concept_name == authorized_concepts[k]
             r == CopyAndRedactConcept(ruleset, files, concept_name)
         IN  IF r.ok
             THEN ProcessFromStopAtFailure(ruleset, files, authorized_concepts, k + 1,
                    [processed |-> Append(acc.processed, concept_name),
                     total |-> acc.total + r.count,
                     staged |-> Put(acc.staged, concept_name, r.content)])
             ELSE acc

\* _process_concepts_for_publication, on a cleared staging directory.
RECURSIVE ProcessFrom(_, _, _, _, _)
ProcessFrom(ruleset, files, authorized_concepts, k, acc) ==
    IF k > Len(authorized_concepts) THEN acc
    ELSE LET concept_name == authorized_concepts[k]
             r == CopyAndRedactConcept(ruleset, files, concept_name)
         IN  ProcessFrom(ruleset, files, authorized_concepts, k + 1,
                IF r.ok
                THEN [processed |-> Append(acc.processed, concept_name),
                      total |-> acc.total + r.count,
                      staged |-> Put(acc.staged, concept_name, r.content)]
                ELSE acc)

ProcessConceptsForPublication(ruleset, files, authorized_concepts) ==
    ProcessFrom(ruleset, files, authorized_concepts, 1,
                [processed |-> <<>>, total |-> 0, staged |-> EmptyDict])

\* The staging directory is used as the last run left it.
SetupStagingDirectoryKeeping(staged) == staged

\* _setup_staging_directory: /tmp/public_staging is removed with what it
\* holds and created again, empty.
SetupStagingDirectory(staged) == EmptyDict

\* _validate_authorized_concepts
NoAuthorizedResult ==
    [success |-> FALSE, error |-> "No authorized concepts found for publication",
     concepts_processed |-> 0, total_redactions |-> 0]

\* _validate_processed_concepts
NoProcessedResult ==
    [success |-> FALSE, error |-> "No concepts were successfully processed",
     concepts_processed |-> 0, total_redactions |-> 0]

\* _handle_pipeline_exception
PipelineExceptionResult ==
    [success |-> FALSE, error |-> "Publishing pipeline failed",
     concepts_processed |-> 0, total_redactions |-> 0]

\* Variant: the failed upload is reported like a finished publication.
UploadFailedResultAsPublished(processed_concepts, total_redactions) ==
    [success |-> TRUE, message |-> "Successfully published",
     concepts_processed |-> Len(processed_concepts), total_redactions |-> total_redactions,
     published_concepts |-> processed_concepts]

\* _execute_pipeline_steps, upload step failed
UploadFailedResult(processed_concepts, total_redactions) ==
    [success |-> FALSE, error |-> "Failed to copy files to public branch",
     concepts_processed |-> Len(processed_concepts), total_redactions |-> total_redactions]

\* _execute_pipeline_steps, all steps done
PublishedResult(processed_concepts, total_redactions) ==
    [success |-> TRUE, message |-> "Successfully published",
     concepts_processed |-> Len(processed_concepts), total_redactions |-> total_redactions]

\* _github_api_update_public_branch: return files_uploaded > 0
UploadStepSucceeded(files_uploaded) == Cardinality(files_uploaded) > 0

\* _create_publication_metadata
PublicationMetadata(concepts, total_redactions, ruleset) ==
    [total_concepts |-> Len(concepts), total_redactions |-> total_redactions,
     redaction_rules_count |-> Len(ruleset), concepts |-> concepts,
     rules_applied |-> [i \in 1..Len(ruleset) |-> ruleset[i][1]]]

\* ------------------------------------------------------------------------
\* AutoRedactionWorkflowV2
\* ------------------------------------------------------------------------

SetupFailedResult ==
    [success |-> FALSE, error |-> "Failed to setup git repository or find concepts directory",
     files_processed |-> 0, rules_added |-> 0]

NoAuthorizedWorkflowResult ==
    [success |-> TRUE, message |-> "No authorized concepts found",
     files_processed |-> 0, rules_added |-> 0, publication_result |-> NoneResult]

NoRedactionNeededResult ==
    [success |-> TRUE, message |-> "No concepts needed redaction",
     files_processed |-> 0, rules_added |-> 0, publication_result |-> NoneResult]

\* Variant: no early return when nothing needs redaction.
WorkflowEarlyReturnNoShortCircuit(dirOk, authorized_concepts, concepts_needing_redaction) ==
    IF ~dirOk THEN SetupFailedResult
    ELSE IF authorized_concepts = <<>> THEN NoAuthorizedWorkflowResult
    ELSE NoneResult

\* The early returns of execute_auto_redaction_workflow; None: go on.
WorkflowEarlyReturn(dirOk, authorized_concepts, concepts_needing_redaction) ==
    IF ~dirOk THEN SetupFailedResult
    ELSE IF authorized_concepts = <<>> THEN NoAuthorizedWorkflowResult
    ELSE IF concepts_needing_redaction = <<>> THEN NoRedactionNeededResult
    ELSE NoneResult

\* The list handed to update_all_published_content after publication
\* (empty: no call).
PublishedConceptsToCache(publication_result) ==
    IF Get(publication_result, "success", FALSE)
    THEN Get(publication_result, "published_concepts", <<>>)
    ELSE <<>>

WorkflowCompletedResult(files_processed, rules_added, concepts_needing_redaction, publication_result) ==
    [success |-> TRUE, message |-> "Auto-redaction workflow v2 completed",
     files_processed |-> files_processed, rules_added |-> rules_added,
     concepts_needing_redaction |-> concepts_needing_redaction,
     publication_result |-> publication_result]

\* ------------------------------------------------------------------------
\* Initial state
\* ------------------------------------------------------------------------

\* A call on one of the web server's managers, with its arguments, what it
\* returned, and what it found: the rule store (file, rules, state of the
\* file) or the ledger of the clone.
Returned(op, args, value, before) ==
    [op |-> op, args |-> args, value |-> value, before |-> before]

NoRequest == Returned("none", <<>>, FALSE, None)

\* How a write of redacted.json can end: written; not opened, the file is as
\* it was; opened, which empties the file, and not written.
SaveOutcomes == {"saved", "not_opened", "truncated"}

\* All dicts from a set of concepts to values of V.
DictsOver(V) == UNION {[S -> V] : S \in SUBSET Concepts}

TaggedTexts(texts) == {Tag(t) : t \in texts}

RuleSetsOf(pool) == {<<>>} \cup {<<r>> : r \in pool}

NoPrev == [ran |-> FALSE, entry |-> "none", failed |-> FALSE, succeeded |-> FALSE,
           needing |-> <<>>, dirty |-> FALSE]

IdleRun ==
    /\ pc = "idle"
    /\ entry = "none"
    /\ rules = <<>>
    /\ authorized = <<>>
    /\ needing = <<>>
    /\ processed = <<>>
    /\ totalRedactions = 0
    /\ filesProcessed = 0
    /\ uploaded = {}
    /\ pubResult = NoneResult
    /\ result = NoneResult
    /\ advanceCalls = <<>>
    /\ baselineAtStart = EmptyDict
    /\ calls = <<>>

\* No manager outside the publish run has been asked to redact.
NoApplyCall ==
    /\ arRules = <<>>
    /\ arContent = <<>>
    /\ arResults = <<>>

\* No request has been served since the web server started.
NoRequestYet ==
    /\ opResult = NoRequest
    /\ returned = NoneResult

\* redacted.json holds one of the rule sets and the web server's manager
\* has loaded it.
RulesInit(ruleSets) ==
    /\ rulesFile \in ruleSets
    /\ rulesFileState = "json"
    /\ mgrRules = rulesFile

\* The two processes that change statuses at the same time.
Processes == {1, 2}

\* A working copy (temp_repo_dir): whether it exists, the remote commit it
\* was cloned from, authorized.json at its HEAD and in its working tree,
\* whether the tree has changes since HEAD, and whether HEAD is a commit
\* the remote does not have.
NoDir == [exists |-> FALSE, base |-> 0, head |-> EmptyDict, tree |-> EmptyDict,
          dirty |-> FALSE, ahead |-> FALSE]

\* No process is changing a status.  shared: the processes run on one
\* machine, where temp_repo_dir is the same directory for both; version:
\* the number of commits pushed to the remote; start: the remote ledger
\* when the processes start.
NoRace ==
    [shared |-> TRUE, version |-> 0, start |-> EmptyDict,
     dir |-> [d \in Processes |-> NoDir],
     proc |-> [p \in Processes |-> [pc |-> "idle", call |-> <<>>, value |-> FALSE]]]

\* The repository, no clone on the machine, no publish run in progress.
RepoAtRest(ledgers, fileDicts) ==
    /\ remoteLedger \in ledgers
    /\ remoteFiles \in fileDicts
    /\ public = EmptyDict
    /\ cloneExists = FALSE
    /\ localLedger = EmptyDict
    /\ localFiles = EmptyDict
    /\ metadata = NoneResult
    /\ baseline \in {EmptyDict, remoteFiles, [c \in Concepts |-> Tag(InitialText)]}
    /\ staging = EmptyDict
    /\ IdleRun
    /\ prev = NoPrev
    /\ nRuns = 0
    /\ nEnvOps = 0

\* The same, and no process is changing a status.
RepoInit(ledgers, fileDicts) == RepoAtRest(ledgers, fileDicts) /\ race = NoRace

InitWith(ledgers, fileDicts, ruleSets) ==
    /\ RepoInit(ledgers, fileDicts)
    /\ RulesInit(ruleSets)
    /\ NoRequestYet
    /\ NoApplyCall

\* The ledger entries of a repository in use: each written by a status
\* change of a concept that had no entry.
InitialEntries ==
    { UpdateConceptStatus(EmptyDict, c, call[1], call[2], call[3])[c] :
        c \in Concepts, call \in TransitionCalls }

InitialLedgers == DictsOver(InitialEntries)

\* A repository in use, no clone on the machine yet: any ledger, any set of
\* concept files, the rule file empty or not; the change detector's cache is
\* empty, holds the files as they are, or holds files deleted since.
Init ==
    InitWith(InitialLedgers, DictsOver(TaggedTexts({InitialText})), RuleSetsOf(RulePool))

\* The same with every concept file present and every ledger entry an
\* authorization: the reviewers' and authors' requests make the rest.
InitEnv ==
    InitWith(DictsOver({e \in InitialEntries : IsAuthorizedEntry(e)}),
             {[c \in Concepts |-> Tag(InitialText)]}, RuleSetsOf(RulePool))

\* ------------------------------------------------------------------------
\* Ledger operations (web server handlers; they run between publish runs)
\* ------------------------------------------------------------------------

\* _setup_git_repo: the old clone is removed, then the remote is cloned.
SetupGitRepo(cloneOk) ==
    IF cloneOk
    THEN [exists |-> TRUE, ledger |-> remoteLedger, files |-> remoteFiles]
    ELSE [exists |-> FALSE, ledger |-> EmptyDict, files |-> EmptyDict]

CurrentClone == [exists |-> cloneExists, ledger |-> localLedger, files |-> localFiles]

Touch == prev' = [prev EXCEPT !.dirty = TRUE]

\* How _setup_git_repo can end: the clone (or the git config or the
\* checkout after it) fails, which is an error; they succeed and the pull
\* fails, which is logged and is not an error; all of it succeeds.
SyncOutcomes == {"ok", "clone_failed", "pull_failed"}

\* No outcome of _setup_git_repo stops the caller.
SetupNeverFails(sync) == FALSE

\* "error" in setup_result
SetupFailed(sync) == sync = "clone_failed"

\* A call on the quarantine manager: as Returned, with the concepts that
\* have an entry in the ledger of the new clone and the outcome of
\* _setup_git_repo.
Synced(op, args, value, found, sync) ==
    Returned(op, args, value, found) @@ [sync |-> sync]

\* A status change that reports success once the entry is written.
TransitionResultIgnoringPush(saved, pushed) == saved

\* What a status change returns: True after _update_concept_status and
\* _commit_and_push have both succeeded.
TransitionResult(saved, pushed) == saved /\ pushed

\* publishing_authorize_for_publishing and its three siblings: clone, write
\* the entry, commit and push.
TransitionCall(concept_name, call) ==
    \E sync \in SyncOutcomes, saveOk \in BOOLEAN, pushOk \in BOOLEAN :
        LET wc == SetupGitRepo(sync # "clone_failed")
            updated == UpdateConceptStatus(wc.ledger, concept_name, call[1], call[2], call[3])
            saved == ~SetupFailed(sync) /\ saveOk
            pushed == saved /\ pushOk
        IN  /\ (sync = "clone_failed" => saveOk)
            /\ (sync = "clone_failed" \/ ~saveOk => pushOk)
            /\ cloneExists' = wc.exists
            /\ localFiles' = wc.files
            /\ metadata' = NoneResult
            /\ localLedger' = IF saved THEN updated ELSE wc.ledger
            /\ remoteLedger' = IF pushed THEN updated ELSE remoteLedger
            /\ opResult' = Synced(call[1], <<concept_name>>, TransitionResult(saved, pushed),
                                  DOMAIN wc.ledger, sync)
            /\ UNCHANGED returned

\* A reviewer's request between publish runs
Transition(concept_name, call) ==
    /\ pc = "idle"
    /\ TransitionCall(concept_name, call)
    /\ nEnvOps' = nEnvOps + 1
    /\ Touch
    /\ UNCHANGED asideVars
    /\ UNCHANGED <<remoteFiles, public, ruleVars, baseline, staging, runVars, nRuns>>

\* refresh_from_github: clone, then _ensure_all_concepts_tracked writes the
\* ledger of the clone when it has added entries. The value is the clone
\* it leaves and what it returns.
RefreshFromGithub(sync, outcome) ==
    LET wc == SetupGitRepo(sync # "clone_failed")
        tracked == AddMissingConcepts(ScanAllConcepts(wc.files), wc.ledger)
        added_count == Cardinality(DOMAIN tracked \ DOMAIN wc.ledger)
        saves == ~SetupFailed(sync) /\ added_count > 0
    IN  [exists |-> wc.exists,
         files |-> wc.files,
         ledger |-> CASE ~saves -> wc.ledger
                      [] saves /\ outcome = "saved" -> tracked
                      [] saves /\ outcome = "not_opened" -> wc.ledger
                      [] saves /\ outcome = "truncated" -> EmptyDict,
         found |-> DOMAIN wc.ledger,
         saves |-> saves,
         ok |-> ~SetupFailed(sync) /\ (saves => outcome = "saved")]

RefreshCall ==
    \E sync \in SyncOutcomes, outcome \in SaveOutcomes :
        LET r == RefreshFromGithub(sync, outcome)
        IN  /\ (~r.saves => outcome = "saved")
            /\ cloneExists' = r.exists
            /\ localFiles' = r.files
            /\ metadata' = NoneResult
            /\ localLedger' = r.ledger
            /\ opResult' = Synced("refresh_from_github", <<>>, r.ok, r.found, sync)
            /\ UNCHANGED returned

\* get_authorization_status
GetAuthorizationStatusCall(concept_name) ==
    \E sync \in SyncOutcomes :
        LET wc == SetupGitRepo(sync # "clone_failed")
        IN  /\ cloneExists' = wc.exists
            /\ localFiles' = wc.files
            /\ metadata' = NoneResult
            /\ localLedger' = wc.ledger
            /\ opResult' = Synced("get_authorization_status", <<concept_name>>,
                                  IF SetupFailed(sync) THEN None
                                  ELSE StatusOf(wc.ledger, concept_name),
                                  DOMAIN wc.ledger, sync)
            /\ UNCHANGED returned

\* get_approved_concepts: the names of the entries it returns.
GetApprovedConceptsCall ==
    \E sync \in SyncOutcomes :
        LET wc == SetupGitRepo(sync # "clone_failed")
        IN  /\ cloneExists' = wc.exists
            /\ localFiles' = wc.files
            /\ metadata' = NoneResult
            /\ localLedger' = wc.ledger
            /\ opResult' = Synced("get_approved_concepts", <<>>,
                                  IF SetupFailed(sync) THEN {}
                                  ELSE SetOf(AuthorizedNames(wc.ledger)),
                                  DOMAIN wc.ledger, sync)
            /\ UNCHANGED returned

\* publishing_review_quarantine: refresh, then the names of the entries
\* with status QUARANTINED.
ReviewQuarantineCall ==
    \E sync \in SyncOutcomes, outcome \in SaveOutcomes :
        LET r == RefreshFromGithub(sync, outcome)
        IN  /\ (~r.saves => outcome = "saved")
            /\ cloneExists' = r.exists
            /\ localFiles' = r.files
            /\ metadata' = NoneResult
            /\ localLedger' = r.ledger
            /\ opResult' = Synced("publishing_review_quarantine", <<>>,
                                  IF ~r.ok THEN {}
                                  ELSE {c \in DOMAIN r.ledger :
                                            StatusOf(r.ledger, c) = "QUARANTINED"},
                                  r.found, sync)
            /\ UNCHANGED returned

\* What a publish run does with the ledger when it starts from the workflow:
\* _setup_and_get_concepts_directory clones unless the concepts directory of
\* a clone is there, then _get_authorized_concept_names reads the ledger of
\* the clone.
GetAuthorizedConceptNamesCall ==
    \E sync \in SyncOutcomes \cup {"reused"} :
        LET needSetup == ~ConceptsDirExists(cloneExists, localFiles)
            wc == IF needSetup THEN SetupGitRepo(sync # "clone_failed") ELSE CurrentClone
            dirOk == ~SetupFailed(sync) /\ ConceptsDirExists(wc.exists, wc.files)
        IN  /\ (needSetup <=> sync # "reused")
            /\ cloneExists' = wc.exists
            /\ localFiles' = wc.files
            /\ metadata' = IF needSetup THEN NoneResult ELSE metadata
            /\ localLedger' = wc.ledger
            /\ opResult' = Synced("_get_authorized_concept_names", <<>>,
                                  IF dirOk THEN SetOf(AuthorizedNames(wc.ledger)) ELSE {},
                                  DOMAIN wc.ledger, sync)
            /\ UNCHANGED returned

\* A refresh between publish runs
Refresh ==
    /\ pc = "idle"
    /\ RefreshCall
    /\ nEnvOps' = nEnvOps + 1
    /\ Touch
    /\ UNCHANGED asideVars
    /\ UNCHANGED <<remoteVars, ruleVars, baseline, staging, runVars, nRuns>>

\* An author changes or removes a concept file on the working branch.
EditSource(c) ==
    /\ pc = "idle"
    /\ \/ \E t \in TaggedTexts(SourceTexts) :
            /\ Get(remoteFiles, c, <<>>) # t
            /\ remoteFiles' = Put(remoteFiles, c, t)
       \/ /\ c \in DOMAIN remoteFiles
          /\ remoteFiles' = [d \in DOMAIN remoteFiles \ {c} |-> remoteFiles[d]]
    /\ nEnvOps' = nEnvOps + 1
    /\ Touch
    /\ UNCHANGED asideVars
    /\ UNCHANGED requestVars
    /\ UNCHANGED <<remoteLedger, public, cloneVars, ruleVars, baseline, staging, runVars, nRuns>>

\* RedactionManager.save_rules
SaveRules(self_rules, outcome) ==
    CASE outcome = "saved" ->
            [ok |-> TRUE, file |-> self_rules, state |-> "json"]
      [] outcome = "not_opened" ->
            [ok |-> FALSE, file |-> rulesFile, state |-> rulesFileState]
      [] outcome = "truncated" ->
            [ok |-> FALSE, file |-> <<>>, state |-> "unparsable"]

\* RedactionManager.load_rules on a manager whose rules are {}: a missing
\* file is created, an unparsable file leaves the rules as they are.
LoadRules(outcome) ==
    CASE rulesFileState = "absent" ->
            [SaveRules(<<>>, outcome) EXCEPT !.ok = TRUE] @@ [rules |-> <<>>]
      [] rulesFileState = "unparsable" ->
            [ok |-> FALSE, file |-> rulesFile, state |-> rulesFileState, rules |-> <<>>]
      [] rulesFileState = "json" ->
            [ok |-> TRUE, file |-> rulesFile, state |-> rulesFileState, rules |-> rulesFile]

\* RedactionManager.__init__: the rules start empty and load_rules is
\* called; what it returns is dropped and the caller gets the manager.
OpenStore ==
    \E outcome \in SaveOutcomes :
        LET load == LoadRules(outcome)
        IN  /\ (rulesFileState # "absent" => outcome = "saved")
            /\ mgrRules' = load.rules
            /\ rulesFile' = load.file
            /\ rulesFileState' = load.state
            /\ opResult' = Returned("RedactionManager", <<>>, TRUE, ruleVars)
            /\ UNCHANGED returned

\* RedactionManager.add_rule
AddRuleCall(sensitive_term, replacement) ==
    /\ IF sensitive_term = <<>>
       THEN /\ UNCHANGED ruleVars
            /\ opResult' = Returned("add_rule", <<sensitive_term, replacement>>, FALSE, ruleVars)
       ELSE \E outcome \in SaveOutcomes :
            LET save == SaveRules(DictSet(mgrRules, sensitive_term, replacement), outcome)
            IN  /\ mgrRules' = DictSet(mgrRules, sensitive_term, replacement)
                /\ rulesFile' = save.file
                /\ rulesFileState' = save.state
                /\ opResult' = Returned("add_rule", <<sensitive_term, replacement>>, save.ok,
                                        ruleVars)
    /\ UNCHANGED returned

\* RedactionManager.remove_rule
RemoveRuleCall(sensitive_term) ==
    /\ IF sensitive_term \notin RuleTerms(mgrRules)
       THEN /\ UNCHANGED ruleVars
            /\ opResult' = Returned("remove_rule", <<sensitive_term>>, FALSE, ruleVars)
       ELSE \E outcome \in SaveOutcomes :
            LET save == SaveRules(DictDel(mgrRules, sensitive_term), outcome)
            IN  /\ mgrRules' = DictDel(mgrRules, sensitive_term)
                /\ rulesFile' = save.file
                /\ rulesFileState' = save.state
                /\ opResult' = Returned("remove_rule", <<sensitive_term>>, save.ok, ruleVars)
    /\ UNCHANGED returned

\* POST /api/redaction/rules between publish runs
AddRule(sensitive_term, replacement) ==
    /\ pc = "idle"
    /\ AddRuleCall(sensitive_term, replacement)
    /\ nEnvOps' = nEnvOps + 1
    /\ Touch
    /\ UNCHANGED <<remoteVars, cloneVars, baseline, staging, runVars, nRuns, asideVars>>

\* DELETE /api/redaction/rules/{sensitive_term} between publish runs
RemoveRule(sensitive_term) ==
    /\ pc = "idle"
    /\ RemoveRuleCall(sensitive_term)
    /\ nEnvOps' = nEnvOps + 1
    /\ Touch
    /\ UNCHANGED <<remoteVars, cloneVars, baseline, staging, runVars, nRuns, asideVars>>

\* ------------------------------------------------------------------------
\* The publish run
\* ------------------------------------------------------------------------

\* _ensure_public_branch: whether the public branch is on the remote is
\* looked up; it is then created with a placeholder README and pushed, or
\* checked out and pulled. The value is the step's name when it succeeds.
EnsurePublicBranch(checkOk, public_branch_exists, gitOk) ==
    IF ~checkOk THEN <<>>
    ELSE IF ~public_branch_exists
    THEN (IF gitOk THEN <<"_create_new_public_branch">> ELSE <<>>)
    ELSE (IF gitOk THEN <<"_switch_to_existing_public_branch">> ELSE <<>>)

\* The methods _process_and_stage_concepts calls on the pipeline.
ProcessAndStageCalls ==
    <<"_setup_staging_directory", "_process_concepts_for_publication",
      "_validate_processed_concepts">>

\* The methods _execute_pipeline_steps calls after staging; the upload goes
\* through the GitHub API, file by file.
CopyAndMetadataCalls(copied) ==
    <<"_copy_staging_to_public_branch", "_github_api_update_public_branch">>
        \o (IF copied THEN <<"_create_publication_metadata">> ELSE <<>>)

\* Rules the redaction-authoring agent may write to redacted.json.
AgentRulePool == RulePool

\* The pipeline hands its result to its caller: the workflow, or the
\* caller of publish_to_public_branch.
PipelineReturns(publication_result) ==
    /\ pubResult' = publication_result
    /\ IF entry = "workflow"
       THEN /\ pc' = "wf_finish"
            /\ result' = result
       ELSE /\ pc' = "done"
            /\ result' = publication_result

\* POST /api/publish_to_public: AutoRedactionWorkflowV2.__init__ and
\* execute_auto_redaction_workflow up to the change detection.
StartWorkflow ==
    /\ pc = "idle"
    /\ \E cloneOk \in BOOLEAN :
        LET needSetup == ~ConceptsDirExists(cloneExists, localFiles)
            wc == IF needSetup THEN SetupGitRepo(cloneOk) ELSE CurrentClone
            dirOk == (needSetup => cloneOk) /\ ConceptsDirExists(wc.exists, wc.files)
            authorized_concepts == AuthorizedNames(wc.ledger)
            concepts_needing_redaction ==
                GetConceptsNeedingRedaction(authorized_concepts, wc.files, baseline)
            early == WorkflowEarlyReturn(dirOk, authorized_concepts, concepts_needing_redaction)
        IN  /\ (~needSetup => cloneOk)
            /\ cloneExists' = wc.exists
            /\ localLedger' = wc.ledger
            /\ localFiles' = wc.files
            /\ metadata' = IF needSetup THEN NoneResult ELSE metadata
            /\ authorized' = IF dirOk THEN authorized_concepts ELSE <<>>
            /\ needing' = IF dirOk /\ authorized_concepts # <<>>
                          THEN concepts_needing_redaction ELSE <<>>
            /\ result' = early
            /\ pc' = IF IsNone(early) THEN "wf_redact" ELSE "done"
    /\ entry' = "workflow"
    /\ rules' = rulesFile
    /\ baselineAtStart' = baseline
    /\ UNCHANGED asideVars
    /\ UNCHANGED requestVars
    /\ UNCHANGED <<remoteVars, ruleVars, baseline, staging, processed, totalRedactions,
                   filesProcessed, uploaded, pubResult, advanceCalls, prev, countVars,
                   calls>>

\* _process_concepts_needing_redaction: the agent runs on every concept that
\* needs redaction and has a file; it may write rules to redacted.json.
RunRedactorAgent ==
    /\ pc = "wf_redact"
    /\ LET withFile == {c \in SetOf(needing) : c \in DOMAIN localFiles}
       IN  \E okRuns \in SUBSET withFile :
           \E added \in {<<>>} \cup {<<r>> : r \in AgentRulePool} :
            /\ (okRuns = {} => added = <<>>)
            /\ filesProcessed' = Cardinality(okRuns)
            /\ rulesFile' = IF added = <<>> THEN rulesFile
                            ELSE DictSet(rulesFile, added[1][1], added[1][2])
    /\ pc' = "wf_publish"
    /\ UNCHANGED asideVars
    /\ UNCHANGED requestVars
    /\ UNCHANGED <<remoteVars, cloneVars, mgrRules, rulesFileState, baseline, staging, entry, rules,
                   authorized, needing, processed, totalRedactions, uploaded, pubResult,
                   result, advanceCalls, baselineAtStart, prev, countVars, calls>>

\* publish_to_public_branch(existing_repo_dir): _validate_authorized_concepts
PipelineValidate ==
    /\ pc = "wf_publish"
    /\ LET authorized_concepts == AuthorizedNames(localLedger)
       IN  IF authorized_concepts = <<>>
           THEN /\ PipelineReturns(NoAuthorizedResult)
                /\ UNCHANGED authorized
           ELSE /\ pc' = "pl_stage"
                /\ authorized' = authorized_concepts
                /\ UNCHANGED <<pubResult, result>>
    /\ UNCHANGED asideVars
    /\ UNCHANGED requestVars
    /\ UNCHANGED <<remoteVars, cloneVars, ruleVars, baseline, staging, entry, rules,
                   needing, processed, totalRedactions, filesProcessed, uploaded,
                   advanceCalls, baselineAtStart, prev, countVars, calls>>

\* publish_to_public_branch(): the pipeline called on its own; the
\* authorized list comes from get_approved_concepts, which clones.
StartPipeline ==
    /\ pc = "idle"
    /\ entry' = "pipeline"
    /\ rules' = rulesFile
    /\ baselineAtStart' = baseline
    /\ \E cloneOk \in BOOLEAN :
        LET wc == SetupGitRepo(cloneOk)
            authorized_concepts == IF cloneOk THEN AuthorizedNames(wc.ledger) ELSE <<>>
        IN  /\ cloneExists' = wc.exists
            /\ localLedger' = wc.ledger
            /\ localFiles' = wc.files
            /\ metadata' = NoneResult
            /\ IF authorized_concepts = <<>>
               THEN /\ pubResult' = NoAuthorizedResult
                    /\ result' = NoAuthorizedResult
                    /\ pc' = "done"
                    /\ UNCHANGED authorized
               ELSE /\ pc' = "pl_stage"
                    /\ authorized' = authorized_concepts
                    /\ UNCHANGED <<pubResult, result>>
    /\ UNCHANGED asideVars
    /\ UNCHANGED requestVars
    /\ UNCHANGED <<remoteVars, ruleVars, baseline, staging, needing, processed,
                   totalRedactions, filesProcessed, uploaded, advanceCalls, prev, countVars,
                   calls>>

\* _process_and_stage_concepts: clear the staging directory, redact and
\* rewrite every authorized concept that has a file, validate.
PipelineStage ==
    /\ pc = "pl_stage"
    /\ LET r == ProcessConceptsForPublication(rules, localFiles, authorized)
           cleared == SetupStagingDirectory(staging)
       IN  /\ staging' = [c \in DOMAIN cleared \cup DOMAIN r.staged |->
                            IF c \in DOMAIN r.staged THEN r.staged[c] ELSE cleared[c]]
           /\ processed' = r.processed
           /\ totalRedactions' = r.total
           /\ calls' = calls \o ProcessAndStageCalls
           /\ IF r.processed = <<>>
              THEN PipelineReturns(NoProcessedResult)
              ELSE /\ pc' = "pl_upload"
                   /\ UNCHANGED <<pubResult, result>>
    /\ UNCHANGED asideVars
    /\ UNCHANGED requestVars
    /\ UNCHANGED <<remoteVars, cloneVars, ruleVars, baseline, entry, rules, authorized,
                   needing, filesProcessed, uploaded, advanceCalls, baselineAtStart,
                   prev, countVars>>

\* The public branch is made the set of the files uploaded.
PublicAfterUploadMirroring(files, staged, files_uploaded) ==
    [c \in files_uploaded |-> staged[c]]

\* _github_api_update_public_branch: the public branch after the PUT of the
\* staged files whose upload succeeded; no request removes a file.
PublicAfterUpload(files, staged, files_uploaded) ==
    [c \in DOMAIN files \cup files_uploaded |->
        IF c \in files_uploaded THEN staged[c] ELSE files[c]]

\* _github_api_update_public_branch has returned files_uploaded > 0:
\* _create_publication_metadata on success, and the pipeline's result.
UploadStepReturns(files_uploaded) ==
    \E metaOk \in BOOLEAN :
        /\ (~UploadStepSucceeded(files_uploaded) => metaOk)
        /\ calls' = calls \o CopyAndMetadataCalls(UploadStepSucceeded(files_uploaded))
        /\ IF ~UploadStepSucceeded(files_uploaded)
           THEN /\ PipelineReturns(UploadFailedResult(processed, totalRedactions))
                /\ UNCHANGED metadata
           ELSE IF metaOk
           THEN /\ metadata' = PublicationMetadata(processed, totalRedactions, rules)
                /\ PipelineReturns(PublishedResult(processed, totalRedactions))
           ELSE /\ PipelineReturns(PipelineExceptionResult)
                /\ UNCHANGED metadata

\* _copy_staging_to_public_branch and _create_publication_metadata: every
\* staged file is sent to the remote, each upload succeeds or fails.
PipelineUpload ==
    /\ pc = "pl_upload"
    /\ \E files_uploaded \in SUBSET DOMAIN staging :
        /\ public' = PublicAfterUpload(public, staging, files_uploaded)
        /\ uploaded' = files_uploaded
        /\ UploadStepReturns(files_uploaded)
    /\ UNCHANGED asideVars
    /\ UNCHANGED requestVars
    /\ UNCHANGED <<remoteLedger, remoteFiles, cloneExists, localLedger, localFiles,
                   ruleVars, baseline, staging, entry, rules, authorized, needing,
                   processed, totalRedactions, filesProcessed, advanceCalls,
                   baselineAtStart, prev, countVars>>

\* The path on the public branch of the file the upload step sends for a
\* staged concept file: its path under the staging directory.
PublicPath(c) == <<"concepts", c, "_itself.md">>

\* The paths of the files on the public branch.
PublicPaths == {PublicPath(c) : c \in DOMAIN public}

\* _create_publication_metadata writes target_path/publication_metadata.json.
MetadataPath == <<"publication_metadata.json">>

\* The identity token the remote gives with a file: the hash of its
\* content.
Sha(content) == [sha |-> Untag(content)]

RemoteToken(files, path) ==
    IF path \in DOMAIN files THEN Sha(files[path]) ELSE NoneResult

\* The remote's put-file-by-path-and-branch: when it serves the request, a
\* file that exists is replaced if the request carries its current token, a
\* file that does not exist is created if the request carries none, and any
\* other request is rejected and changes nothing.
RemotePut(files, path, content, sha, served) ==
    LET accepted == served /\ sha = RemoteToken(files, path)
    IN  [status |-> IF ~served THEN 500
                    ELSE IF ~accepted THEN 409
                    ELSE IF path \in DOMAIN files THEN 200 ELSE 201,
         files |-> IF accepted THEN Put(files, path, content) ELSE files]

\* Every upload is reported as done.
UploadReturnsAlways(status_code) == TRUE

\* _upload_file_to_github: response.status_code in [200, 201]
UploadReturns(status_code) == status_code \in {200, 201}

\* The record of an upload: of its GET (value: the token it read) and of
\* its return (value: what it returned; sha: the token it sent); before:
\* the staged files whose upload has returned.
Upload(op, c, value, sha, status_code, returned_files) ==
    [op |-> op, args |-> <<c>>, value |-> value, before |-> returned_files,
     sha |-> sha, status |-> status_code]

UploadsReturned ==
    IF opResult.op \in {"requests.get", "_upload_file_to_github"}
    THEN opResult.before ELSE {}

\* _upload_file_to_github of the staged file of concept c, in its two
\* requests: the GET of the file on the public branch, whose token is kept
\* when the answer is 200, and the PUT of the staged content with that
\* token.  An exception in the GET ends the upload.
UploadFileToGithub(c) ==
    /\ pc = "pl_upload"
    /\ \/ /\ opResult.op # "requests.get"
          /\ c \in DOMAIN staging \ UploadsReturned
          /\ \E response \in {"answered", "other_status", "exception"} :
                opResult' =
                    IF response = "exception"
                    THEN Upload("_upload_file_to_github", c, FALSE, NoneResult, 0,
                                UploadsReturned \cup {c})
                    ELSE Upload("requests.get", c,
                                IF response = "answered" THEN RemoteToken(public, c)
                                ELSE NoneResult,
                                NoneResult,
                                IF response = "answered" /\ c \in DOMAIN public THEN 200 ELSE 404,
                                UploadsReturned)
          /\ UNCHANGED <<public, uploaded>>
       \/ /\ opResult.op = "requests.get"
          /\ opResult.args = <<c>>
          /\ \E served \in BOOLEAN :
                LET response == RemotePut(public, c, staging[c], opResult.value, served)
                IN  /\ public' = response.files
                    /\ uploaded' = IF UploadReturns(response.status)
                                   THEN uploaded \cup {c} ELSE uploaded
                    /\ opResult' = Upload("_upload_file_to_github", c,
                                          UploadReturns(response.status),
                                          opResult.value, response.status,
                                          UploadsReturned \cup {c})
    /\ UNCHANGED asideVars
    /\ UNCHANGED <<remoteLedger, remoteFiles, cloneVars, ruleVars, baseline, staging,
                   pc, entry, rules, authorized, needing, processed, totalRedactions,
                   filesProcessed, pubResult, result, advanceCalls, baselineAtStart,
                   calls, prev, countVars, returned>>

\* _github_api_update_public_branch returns when the upload of every staged
\* file has returned.
UploadFinish ==
    /\ pc = "pl_upload"
    /\ opResult.op # "requests.get"
    /\ DOMAIN staging \subseteq UploadsReturned
    /\ UploadStepReturns(uploaded)
    /\ opResult' = Returned("_github_api_update_public_branch", <<>>,
                            UploadStepSucceeded(uploaded), None)
    /\ UNCHANGED asideVars
    /\ UNCHANGED <<remoteVars, cloneExists, localLedger, localFiles,
                   ruleVars, baseline, staging, entry, rules, authorized, needing,
                   processed, totalRedactions, filesProcessed, uploaded, advanceCalls,
                   baselineAtStart, prev, countVars, returned>>

\* Another writer of the public branch puts a file there, or replaces one.
OtherWriter(c) ==
    /\ \E t \in TaggedTexts(SourceTexts) :
            /\ RemoteToken(public, c) # Sha(t)
            /\ public' = Put(public, c, t)
    /\ nEnvOps' = nEnvOps + 1
    /\ UNCHANGED asideVars
    /\ UNCHANGED requestVars
    /\ UNCHANGED <<remoteLedger, remoteFiles, cloneVars, ruleVars, baseline, staging,
                   runVars, prev, nRuns>>

\* execute_auto_redaction_workflow after publication: the cache update and
\* the workflow's result.
WorkflowFinish ==
    /\ pc = "wf_finish"
    /\ LET published_concepts == PublishedConceptsToCache(pubResult)
       IN  IF published_concepts # <<>>
           THEN /\ baseline' = UpdateAllPublishedContent(published_concepts, localFiles, baseline)
                /\ advanceCalls' = Append(advanceCalls, published_concepts)
           ELSE UNCHANGED <<baseline, advanceCalls>>
    /\ result' = WorkflowCompletedResult(filesProcessed, 0, needing, pubResult)
    /\ pc' = "done"
    /\ UNCHANGED asideVars
    /\ UNCHANGED requestVars
    /\ UNCHANGED <<remoteVars, cloneVars, ruleVars, staging, entry, rules, authorized,
                   needing, processed, totalRedactions, filesProcessed, uploaded,
                   pubResult, baselineAtStart, prev, countVars, calls>>

\* Every step the run reached did what it is there for.
StepsAllSucceeded ==
    /\ ~IsNone(pubResult)
    /\ processed # <<>>
    /\ uploaded = DOMAIN staging
    /\ Get(pubResult, "error", None) = None

\* The caller has the result; the next request can be served.
Return ==
    /\ pc = "done"
    /\ prev' = [ran |-> TRUE, entry |-> entry,
                failed |-> ~IsNone(pubResult) /\ ~StepsAllSucceeded,
                succeeded |-> StepsAllSucceeded,
                needing |-> needing, dirty |-> FALSE]
    /\ pc' = "idle"
    /\ entry' = "none"
    /\ rules' = <<>>
    /\ authorized' = <<>>
    /\ needing' = <<>>
    /\ processed' = <<>>
    /\ totalRedactions' = 0
    /\ filesProcessed' = 0
    /\ uploaded' = {}
    /\ pubResult' = NoneResult
    /\ result' = NoneResult
    /\ advanceCalls' = <<>>
    /\ baselineAtStart' = EmptyDict
    /\ calls' = <<>>
    /\ nRuns' = nRuns + 1
    /\ UNCHANGED asideVars
    /\ UNCHANGED requestVars
    /\ UNCHANGED <<remoteVars, cloneVars, ruleVars, baseline, staging, nEnvOps>>

\* The requests of the reviewers and authors, at most MaxEnvOps of them.
EnvNext ==
    \/ nEnvOps < MaxEnvOps /\ \E c \in Concepts, call \in TransitionCalls : Transition(c, call)
    \/ nEnvOps < MaxEnvOps /\ Refresh
    \/ nEnvOps < MaxEnvOps /\ \E c \in Concepts : EditSource(c)
    \/ nEnvOps < MaxEnvOps /\ \E r \in RulePool \cup {<<(<<>>), (<<"R">>)>>} : AddRule(r[1], r[2])
    \/ nEnvOps < MaxEnvOps /\ \E r \in RulePool : RemoveRule(r[1])

\* The publish runs, one after the other, at most MaxRuns of them.
Next ==
    \/ nRuns < MaxRuns /\ StartWorkflow
    \/ nRuns < MaxRuns /\ StartPipeline
    \/ RunRedactorAgent
    \/ PipelineValidate
    \/ PipelineStage
    \/ PipelineUpload
    \/ WorkflowFinish
    \/ Return

Spec == Init /\ [][Next]_vars

\* The publish runs with the requests of the reviewers and authors between
\* them.
NextEnv == Next \/ EnvNext

SpecEnv == InitEnv /\ [][NextEnv]_vars

\* ------------------------------------------------------------------------
\* Staging of arbitrary content under arbitrary rules
\* ------------------------------------------------------------------------

\* Source texts: plain text with sensitive terms, and a relative link.
StageTexts ==
    { <<"a", "X", "b">>,
      <<"S", "x", "S">>,
      <<"[", "S", "]", "(", ".", ".", "/", "N", ".", "m", "d", ")">> }

\* (term, replacement) pairs of redacted.json; a replacement may be empty.
StageRulePool ==
    { <<(<<"a", "b">>), (<<"R">>)>>,
      <<(<<"X">>), (<<>>)>>,
      <<(<<"S">>), (<<"R">>)>> }

\* The rule files of at most two rules, in either insertion order.
StageRuleSets ==
    RuleSetsOf(StageRulePool)
        \cup {p \in {<<r1, r2>> : r1 \in StageRulePool, r2 \in StageRulePool} : p[1][1] # p[2][1]}

\* Every concept is authorized and has a file with one of the source texts.
InitStage ==
    InitWith({[c \in Concepts |-> CHOOSE e \in InitialEntries : IsAuthorizedEntry(e)]},
             [Concepts -> TaggedTexts(StageTexts)], StageRuleSets)

SpecStage == InitStage /\ [][Next]_vars

\* ------------------------------------------------------------------------
\* Staging of content with links
\* ------------------------------------------------------------------------

\* [a](../O/O_itself.md)
CanonicalLink ==
    <<"[", "a", "]", "(", ".", ".", "/", "O", "/", "O", "_", "i", "t", "s", "e", "l", "f", ".", "m", "d", ")">>

\* [b](../N.md)
OtherRelativeLink ==
    <<"[", "b", "]", "(", ".", ".", "/", "N", ".", "m", "d", ")">>

\* Source texts: no link, one link, two links of one form or of both.
LinkTexts ==
    { <<"x">>,
      CanonicalLink,
      OtherRelativeLink,
      CanonicalLink \o <<"x">> \o CanonicalLink,
      CanonicalLink \o OtherRelativeLink,
      OtherRelativeLink \o <<"x">> \o CanonicalLink }

\* Every concept is authorized and has a file with one of the link texts;
\* redacted.json holds no rule.
InitLinks ==
    InitWith({[c \in Concepts |-> CHOOSE e \in InitialEntries : IsAuthorizedEntry(e)]},
             [Concepts -> TaggedTexts(LinkTexts)], {<<>>})

SpecLinks == InitLinks /\ [][Next]_vars

\* ------------------------------------------------------------------------
\* Staging of files that cannot be read
\* ------------------------------------------------------------------------

\* Any ledger; each concept file is missing, readable or unreadable.
InitRead ==
    InitWith(InitialLedgers, DictsOver({Tag(InitialText), UnreadableFile}),
             RuleSetsOf(RulePool))

\* Publish runs through publish_to_public_branch().
NextRead ==
    \/ nRuns < MaxRuns /\ StartPipeline
    \/ PipelineStage
    \/ PipelineUpload
    \/ Return

SpecRead == InitRead /\ [][NextRead]_vars

\* ------------------------------------------------------------------------
\* Publish runs with status changes between them
\* ------------------------------------------------------------------------

\* Every concept file present, every concept authorized, no redaction
\* rule: the reviewers' status changes make the rest.
InitClear ==
    InitWith({l \in DictsOver({e \in InitialEntries : IsAuthorizedEntry(e)}) :
                 DOMAIN l = Concepts},
             {[c \in Concepts |-> Tag(InitialText)]}, {<<>>})

\* Publish runs through publish_to_public_branch(), and the reviewers'
\* status changes between them.
NextClear ==
    \/ nRuns < MaxRuns /\ StartPipeline
    \/ PipelineStage
    \/ PipelineUpload
    \/ Return
    \/ nEnvOps < MaxEnvOps /\ \E c \in Concepts, call \in TransitionCalls : Transition(c, call)

SpecClear == InitClear /\ [][NextClear]_vars

\* Publish runs whose upload step is taken request by request, with
\* another writer of the public branch.
NextUpload ==
    \/ nRuns < MaxRuns /\ StartPipeline
    \/ PipelineStage
    \/ \E c \in Concepts : UploadFileToGithub(c)
    \/ UploadFinish
    \/ Return
    \/ nEnvOps < MaxEnvOps /\ \E c \in Concepts : OtherWriter(c)

SpecUpload == InitClear /\ [][NextUpload]_vars

\* ------------------------------------------------------------------------
\* Two processes that change the status of different concepts
\* ------------------------------------------------------------------------

\* The working copy of process p: one directory for all processes of a
\* machine.
Dir(p) == IF race.shared THEN 1 ELSE p

\* Process p has returned value from its status change.
Done(p, value) == [race.proc[p] EXCEPT !.pc = "done", !.value = value]

\* One of the four status-change methods, called by process p for concept
\* p, in its steps: _setup_git_repo (the directory is removed and cloned
\* again), _update_concept_status (authorized.json of the working tree is
\* loaded, changed and saved), and in _commit_and_push git add and git
\* commit, which fails when the tree has no change, and git push, which the
\* remote rejects when it has a commit the working copy was not cloned
\* from, and which succeeds without sending anything when HEAD is a commit
\* the remote has.
RaceTransition(p) ==
    LET me == race.proc[p]
        d == Dir(p)
        wd == race.dir[d]
    IN  \/ /\ me.pc = "idle"
           /\ \E call \in TransitionCalls, cloned \in BOOLEAN :
                race' = [race EXCEPT
                    !.dir[d] = IF cloned
                               THEN [exists |-> TRUE, base |-> race.version,
                                     head |-> remoteLedger, tree |-> remoteLedger,
                                     dirty |-> FALSE, ahead |-> FALSE]
                               ELSE NoDir,
                    !.proc[p] = [pc |-> IF cloned THEN "setup" ELSE "done",
                                 call |-> call, value |-> FALSE]]
           /\ UNCHANGED remoteLedger
        \/ /\ me.pc = "setup"
           /\ race' = IF wd.exists
                      THEN [race EXCEPT
                               !.dir[d].tree = UpdateConceptStatus(wd.tree, p, me.call[1],
                                                                   me.call[2], me.call[3]),
                               !.dir[d].dirty = TRUE,
                               !.proc[p].pc = "updated"]
                      ELSE [race EXCEPT !.proc[p] = Done(p, FALSE)]
           /\ UNCHANGED remoteLedger
        \/ /\ me.pc = "updated"
           /\ race' = IF wd.exists /\ wd.dirty
                      THEN [race EXCEPT
                               !.dir[d].head = wd.tree,
                               !.dir[d].dirty = FALSE,
                               !.dir[d].ahead = TRUE,
                               !.proc[p].pc = "committed"]
                      ELSE [race EXCEPT !.proc[p] = Done(p, FALSE)]
           /\ UNCHANGED remoteLedger
        \/ /\ me.pc = "committed"
           /\ \E reached \in BOOLEAN :
                IF wd.exists /\ ~wd.ahead
                THEN /\ race' = [race EXCEPT !.proc[p] = Done(p, TRUE)]
                     /\ UNCHANGED remoteLedger
                ELSE IF wd.exists /\ reached /\ wd.base = race.version
                THEN /\ remoteLedger' = wd.head
                     /\ race' = [race EXCEPT
                                    !.version = race.version + 1,
                                    !.dir[d].base = race.version + 1,
                                    !.dir[d].ahead = FALSE,
                                    !.proc[p] = Done(p, TRUE)]
                ELSE /\ race' = [race EXCEPT !.proc[p] = Done(p, FALSE)]
                     /\ UNCHANGED remoteLedger

\* A repository in use; the two processes run on one machine or on two.
InitRace ==
    /\ RepoAtRest(InitialLedgers, {[c \in Concepts |-> Tag(InitialText)]})
    /\ \E shared \in BOOLEAN :
            race = [NoRace EXCEPT !.shared = shared, !.start = remoteLedger]
    /\ RulesInit({<<>>})
    /\ NoRequestYet
    /\ NoApplyCall

NextRace ==
    \E p \in Processes :
        /\ RaceTransition(p)
        /\ UNCHANGED <<remoteFiles, public, cloneVars, ruleVars, baseline, staging,
                       runVars, prev, countVars, requestVars, applyVars>>

SpecRace == InitRace /\ [][NextRace]_vars

\* ------------------------------------------------------------------------
\* The ledger under the reviewers' requests
\* ------------------------------------------------------------------------

\* What the ledger operations leave alone.
ledgerFrame == <<remoteFiles, public, ruleVars, baseline, staging, runVars, prev, countVars,
                 asideVars>>

\* The concept files of the working branch: every concept has its
\* directory.
LedgerFileSets == {[c \in Concepts |-> Tag(InitialText)]}

\* A repository in use: any ledger, with or without an entry for a concept
\* that has a directory.
InitLedger ==
    /\ RepoInit(InitialLedgers, LedgerFileSets)
    /\ baseline = EmptyDict
    /\ RulesInit({<<>>})
    /\ NoRequestYet
    /\ NoApplyCall

NextLedger ==
    \/ \E c \in Concepts, call \in TransitionCalls :
            TransitionCall(c, call) /\ UNCHANGED ledgerFrame
    \/ RefreshCall /\ UNCHANGED <<remoteLedger, ledgerFrame>>
    \/ \E c \in Concepts :
            GetAuthorizationStatusCall(c) /\ UNCHANGED <<remoteLedger, ledgerFrame>>
    \/ GetApprovedConceptsCall /\ UNCHANGED <<remoteLedger, ledgerFrame>>
    \/ ReviewQuarantineCall /\ UNCHANGED <<remoteLedger, ledgerFrame>>
    \/ GetAuthorizedConceptNamesCall /\ UNCHANGED <<remoteLedger, ledgerFrame>>

SpecLedger == InitLedger /\ [][NextLedger]_vars

\* ------------------------------------------------------------------------
\* The rule store of the web server
\* ------------------------------------------------------------------------

\* get_rules handing out the manager's own dict.
GetRulesSameObject(self_rules) == [rules |-> self_rules, same_object |-> TRUE]

\* RedactionManager.get_rules: self.rules.copy()
GetRules(self_rules) == [rules |-> self_rules, same_object |-> FALSE]

GetRulesCall ==
    /\ returned' = GetRules(mgrRules)
    /\ opResult' = Returned("get_rules", <<>>, TRUE, ruleVars)
    /\ UNCHANGED ruleVars

\* The caller of get_rules sets or deletes an entry of the mapping it got;
\* the manager's dict changes with it when it is the same object.
ChangeReturned(term, replacement, delete) ==
    /\ ~IsNone(returned)
    /\ LET changed == IF delete THEN DictDel(returned.rules, term)
                      ELSE DictSet(returned.rules, term, replacement)
       IN  /\ changed # returned.rules
           /\ returned' = [returned EXCEPT !.rules = changed]
           /\ mgrRules' = IF returned.same_object THEN changed ELSE mgrRules
    /\ opResult' = Returned("caller_changes_mapping", <<term>>, TRUE, ruleVars)
    /\ UNCHANGED <<rulesFile, rulesFileState>>

\* (term, replacement) pairs of the requests: two replacements for one term.
StoreRulePool ==
    { <<(<<"S">>), (<<"R">>)>>,
      <<(<<"S">>), (<<>>)>>,
      <<(<<"x">>), (<<"R">>)>> }

\* A request with an empty term.
EmptyTermRule == <<(<<>>), (<<"R">>)>>

StoreRuleSets ==
    {q \in UNION {[1..n -> StoreRulePool] : n \in 0..2} :
        \A i, j \in DOMAIN q : i # j => q[i][1] # q[j][1]}

\* What the rule store operations leave alone.
storeFrame == <<remoteVars, cloneVars, baseline, staging, runVars, prev, countVars, asideVars>>

\* The web server has started: redacted.json held a rule set, was missing
\* and could or could not be created, or was unparsable; the manager was
\* constructed on it.
InitStore ==
    /\ RepoInit({EmptyDict}, {EmptyDict})
    /\ baseline = EmptyDict
    /\ NoApplyCall
    /\ returned = NoneResult
    /\ \E before \in {"absent", "unparsable", "json"} :
        /\ \/ before = "json" /\ RulesInit(StoreRuleSets)
           \/ /\ before = "absent"
              /\ rulesFileState \in {"json", "absent", "unparsable"}
              /\ rulesFile = <<>> /\ mgrRules = <<>>
           \/ /\ before = "unparsable"
              /\ rulesFileState = "unparsable" /\ rulesFile = <<>> /\ mgrRules = <<>>
        /\ opResult = Returned("RedactionManager", <<>>, TRUE, <<rulesFile, <<>>, before>>)

\* The requests on the rule store, and a restart of the web server.
NextStore ==
    \/ OpenStore /\ UNCHANGED storeFrame
    \/ \E r \in StoreRulePool \cup {EmptyTermRule} :
            AddRuleCall(r[1], r[2]) /\ UNCHANGED storeFrame
    \/ \E r \in StoreRulePool : RemoveRuleCall(r[1]) /\ UNCHANGED storeFrame
    \/ GetRulesCall /\ UNCHANGED storeFrame
    \/ \E r \in StoreRulePool, delete \in BOOLEAN :
            ChangeReturned(r[1], r[2], delete) /\ UNCHANGED storeFrame

SpecStore == InitStore /\ [][NextStore]_vars

\* ------------------------------------------------------------------------
\* apply_redactions on arbitrary content under arbitrary rules
\* ------------------------------------------------------------------------

MaxTextLen == 4
MaxApplications == 2

ApplyChars == {"a", "b", "c"}

\* Every text of at most MaxTextLen characters.
ApplyTexts == UNION {[1..n -> ApplyChars] : n \in 0..MaxTextLen}

\* (term, replacement) pairs: a term inside a longer term, two terms of one
\* length that overlap, replacements that are empty or hold another term.
ApplyRulePool ==
    { <<(<<"a">>), (<<"x">>)>>,
      <<(<<"a", "b">>), (<<"y">>)>>,
      <<(<<"a", "b">>), (<<"a">>)>>,
      <<(<<"a", "a">>), (<<"y">>)>>,
      <<(<<"c">>), (<<>>)>>,
      <<(<<"c">>), (<<"x">>)>> }

\* The rule sets of at most three rules, in every insertion order.
ApplyRuleSets ==
    {q \in UNION {[1..n -> ApplyRulePool] : n \in 0..3} :
        \A i, j \in DOMAIN q : i # j => q[i][1] # q[j][1]}

\* A manager that holds one of the rule sets, and a content.
InitApply ==
    /\ RepoInit({EmptyDict}, {EmptyDict})
    /\ baseline = EmptyDict
    /\ RulesInit({<<>>})
    /\ NoRequestYet
    /\ arRules \in ApplyRuleSets
    /\ arContent \in TaggedTexts(ApplyTexts)
    /\ arResults = <<>>

\* apply_redactions(content): the first call on the content, each later
\* call on the text the call before it returned.
ApplyRedactionsCall ==
    /\ Len(arResults) < MaxApplications
    /\ LET content == IF arResults = <<>> THEN arContent
                      ELSE Tag(Untag(arResults[Len(arResults)][1]))
       IN  arResults' = Append(arResults, ApplyRedactions(arRules, content))
    /\ UNCHANGED <<remoteVars, cloneVars, ruleVars, baseline, staging, runVars, prev,
                   countVars, requestVars, arRules, arContent, race>>

NextApply == ApplyRedactionsCall

\* POST /api/redaction/preview with the content: an error when the content
\* is empty, else the previews and their number.
PreviewRedactionsCall ==
    /\ opResult' = Returned("preview_redactions", <<arContent>>,
                            IF arContent = <<>>
                            THEN [success |-> FALSE, previews |-> <<>>, total_redactions |-> 0]
                            ELSE LET previews == PreviewRedactions(arRules, 1, arContent)
                                 IN  [success |-> TRUE, previews |-> previews,
                                      total_redactions |-> Len(previews)],
                            arRules)
    /\ UNCHANGED <<remoteVars, cloneVars, ruleVars, baseline, staging, runVars, prev,
                   countVars, returned, asideVars>>

NextPreview == PreviewRedactionsCall \/ ApplyRedactionsCall

SpecApply == InitApply /\ [][NextApply]_vars

SpecPreview == InitApply /\ [][NextPreview]_vars

\* ------------------------------------------------------------------------
\* Properties of the publish run
\* ------------------------------------------------------------------------

\* The staging step of the current run has run.
StageRan ==
    \/ pc = "pl_upload"
    \/ /\ pc \in {"wf_finish", "done"}
       /\ ~IsNone(pubResult)
       /\ pubResult # NoAuthorizedResult

\* The run reached the pipeline and one of its steps failed.
RunFailed == ~IsNone(pubResult) /\ ~StepsAllSucceeded

C2_Claim ==
    StageRan =>
        \A c \in DOMAIN staging : \A term \in RuleTerms(rules) :
            ~Contains(Untag(staging[c]), term)

\* C3: a run in which a publication step failed leaves the baseline as it
\* was when the run started, and the workflow run that follows with nothing
\* changed in between computes the needs-redaction set the failed run computed.
C3_FailedRunKeepsBaseline ==
    /\ (pc = "done" /\ RunFailed) => baseline = baselineAtStart
    /\ (entry = "workflow" /\ prev.failed /\ prev.entry = "workflow" /\ ~prev.dirty)
            => needing = prev.needing

C3_Witness ==
    /\ entry = "workflow"
    /\ pc = "wf_redact"
    /\ prev.failed
    /\ prev.entry = "workflow"
    /\ ~prev.dirty
    /\ needing # <<>>
    /\ public # EmptyDict

\* C4: when every publication step of a workflow run succeeded,
\* update_all_published_content was called in that run, once, with exactly
\* the concepts the run published.
C4_Claim ==
    (pc = "done" /\ entry = "workflow" /\ StepsAllSucceeded)
        => /\ Len(advanceCalls) = 1
           /\ SetOf(advanceCalls[1]) = uploaded

\* C5: a workflow run that follows a successful one with no change in
\* between is a no-op: nothing needs redaction, nothing is staged or uploaded.
C5_Claim ==
    (entry = "workflow" /\ prev.succeeded /\ prev.entry = "workflow" /\ ~prev.dirty)
        => /\ needing = <<>>
           /\ pc = "done"
           /\ processed = <<>>
           /\ uploaded = {}

\* C6: with a non-empty authorized set and no concept needing redaction the
\* workflow returns success with zero concepts processed, without staging,
\* without upload and without a call of update_all_published_content.
C6_NoChangesIsNoOp ==
    (entry = "workflow" /\ pc = "done" /\ authorized # <<>> /\ needing = <<>>)
        => /\ Get(result, "success", FALSE)
           /\ Get(result, "files_processed", -1) = 0
           /\ IsNone(Get(result, "publication_result", EmptyDict))
           /\ IsNone(pubResult)
           /\ processed = <<>>
           /\ uploaded = {}
           /\ advanceCalls = <<>>
           /\ baseline = baselineAtStart

C6_Witness ==
    /\ entry = "workflow"
    /\ pc = "done"
    /\ authorized # <<>>
    /\ needing = <<>>
    /\ \E c \in SetOf(authorized) : c \in DOMAIN localFiles

\* C7: when the ledger that was read holds no AUTHORIZED concept, the run
\* returns success, without error and with zero concepts processed, at the
\* workflow and at the pipeline entry point.
C7_Claim ==
    (pc = "done" /\ ConceptsDirExists(cloneExists, localFiles)
                 /\ AuthorizedNames(localLedger) = <<>>)
        => /\ Get(result, "success", FALSE)
           /\ "error" \notin DOMAIN result
           /\ processed = <<>>

\* C8: when the authorized set is not empty, the staging step ran and no
\* authorized concept has a source file, the run fails: success is false,
\* nothing is uploaded, no metadata is written and the baseline is not
\* advanced.
C8_Claim ==
    (pc = "done" /\ authorized # <<>> /\ StageRan
                 /\ \A c \in SetOf(authorized) : c \notin DOMAIN localFiles)
        => /\ ~Get(result, "success", TRUE)
           /\ uploaded = {}
           /\ IsNone(metadata)
           /\ advanceCalls = <<>>
           /\ baseline = baselineAtStart

\* C9: after the staging step, an authorized concept without a source file
\* is neither staged nor in the processed list, and every authorized concept
\* with a source file is both.
C9_MissingFileSkipped ==
    StageRan =>
        \A c \in SetOf(authorized) :
            IF c \in DOMAIN localFiles
            THEN c \in DOMAIN staging /\ c \in SetOf(processed)
            ELSE c \notin DOMAIN staging /\ c \notin SetOf(processed)

C9_Witness ==
    /\ StageRan
    /\ \E c \in SetOf(authorized) : c \notin DOMAIN localFiles
    /\ \E c \in SetOf(authorized) : c \in DOMAIN staging

\* C10: if the upload of a staged file fails the pipeline reports failure,
\* and the concepts of a run reported successful are exactly the concepts the
\* run put on the public branch.
C10_Claim ==
    (pc = "done" /\ processed # <<>>)
        => /\ (uploaded # DOMAIN staging => ~Get(pubResult, "success", FALSE))
           /\ (Get(pubResult, "success", FALSE) => uploaded = SetOf(processed))

\* ------------------------------------------------------------------------
\* The public branch
\* ------------------------------------------------------------------------

\* What a run's log shows when _ensure_public_branch has succeeded.
EnsuredSteps == {EnsurePublicBranch(TRUE, e, TRUE)[1] : e \in BOOLEAN}

\* C11: in a publish run that has uploaded files, the public branch was
\* ensured (created and pushed, or checked out and pulled) with success
\* before the upload step was called.
C11_Claim ==
    uploaded # {} =>
        \E j \in 1..Len(calls) :
            /\ calls[j] = "_copy_staging_to_public_branch"
            /\ \E i \in 1..(j - 1) : calls[i] \in EnsuredSteps

\* ------------------------------------------------------------------------
\* Properties of apply_redactions
\* ------------------------------------------------------------------------

\* A is a proper substring of B (plain texts).
ProperSubstring(A, B) == Len(A) < Len(B) /\ Contains(B, A)

\* Where the occurrences of the term start in the content, non-overlapping,
\* scanning from the left.
RECURSIVE OccurrencesFrom(_, _, _)
OccurrencesFrom(content, term, i) ==
    IF i + Len(term) - 1 > Len(content) THEN {}
    ELSE IF MatchAt(content, term, i)
         THEN {i} \cup OccurrencesFrom(content, term, i + Len(term))
         ELSE OccurrencesFrom(content, term, i + 1)

\* The positions of the content inside an occurrence of the term.
CoveredBy(content, term) ==
    {p + k : p \in OccurrencesFrom(content, term, 1), k \in 0..(Len(term) - 1)}

\* The positions of the source whose character is still in the output.
SurvivingSource(out) == {out[i][2] : i \in DOMAIN out} \ {0}

\* The first call has returned; its content and count.
Applied == arResults # <<>>
FirstOutput == arResults[1][1]
FirstCount == arResults[1][2]

\* Rules i and j are a term A inside a longer term B, and the content holds B.
ShortInLong(i, j) ==
    /\ ProperSubstring(arRules[i][1], arRules[j][1])
    /\ Contains(Untag(arContent), arRules[j][1])

\* No rule other than j with a term at least as long as j's occurs in the
\* content.
NoLongerRuleOccurs(j) ==
    \A k \in DOMAIN arRules \ {j} :
        Len(arRules[k][1]) >= Len(arRules[j][1]) => ~Contains(Untag(arContent), arRules[k][1])

\* C12 as stated: for two rules with terms A inside B and a content holding
\* B, every occurrence of B is replaced as a whole: no character of an
\* occurrence of B is left in the output, whatever the insertion order.
C12_Claim ==
    Applied =>
        \A i, j \in DOMAIN arRules :
            ShortInLong(i, j) =>
                CoveredBy(arContent, arRules[j][1]) \cap SurvivingSource(FirstOutput) = {}

\* C12 amended: the same when no other rule with a term at least as long as
\* B occurs in the content (such a rule is applied before B and can take a
\* part of an occurrence of B).
C12_LongestFirst ==
    Applied =>
        \A i, j \in DOMAIN arRules :
            ShortInLong(i, j) /\ NoLongerRuleOccurs(j) =>
                CoveredBy(arContent, arRules[j][1]) \cap SurvivingSource(FirstOutput) = {}

\* The rule of the shorter term was inserted first, and the content holds
\* the longer term.
C12_Witness ==
    /\ Applied
    /\ \E i, j \in DOMAIN arRules : i < j /\ ShortInLong(i, j) /\ NoLongerRuleOccurs(j)

\* No rule from the k-th on, applied in turn to the content, matches at a
\* place that holds a character an earlier rule has inserted.
RECURSIVE InsertedUntouchedFrom(_, _, _)
InsertedUntouchedFrom(sorted, k, content) ==
    IF k > Len(sorted) THEN TRUE
    ELSE /\ \A p \in CoveredBy(content, sorted[k][1]) : content[p][2] # 0
         /\ InsertedUntouchedFrom(sorted, k + 1,
                                  ApplySingleRule(content, sorted[k][1], sorted[k][2])[1])

\* C13: within one apply_redactions call, no rule matches or changes text
\* that an earlier rule of the call has inserted as its replacement.
C13_Claim ==
    Applied => InsertedUntouchedFrom(GetSortedRules(arRules), 1, arContent)

\* No replacement of the rule set contains a term of the rule set.
NoReplacementHoldsTerm ==
    \A i, j \in DOMAIN arRules : ~Contains(arRules[i][2], arRules[j][1])

\* C14: when no replacement text contains any rule's term, applying
\* apply_redactions to its own output returns that output unchanged, with
\* match count 0.
C14_Claim ==
    Len(arResults) >= 2 /\ NoReplacementHoldsTerm =>
        /\ Untag(arResults[2][1]) = Untag(FirstOutput)
        /\ arResults[2][2] = 0

\* Every position of the content at which the term occurs.
AllOccurrences(content, term) ==
    {i \in 1..Len(content) : MatchAt(content, term, i)}

\* The largest number of occurrences of the term in the content no two of
\* which overlap.
MaxNonOverlapping(content, term) ==
    LET disjoint == {S \in SUBSET AllOccurrences(content, term) :
                        \A p, q \in S : p < q => q - p >= Len(term)}
    IN  MaxOf({Cardinality(S) : S \in disjoint})

\* From the k-th rule on: the rule reports the number of non-overlapping
\* occurrences of its term in the content it is applied to, and each of
\* them has been replaced by the rule's replacement.
RECURSIVE CountsReplacementsFrom(_, _, _)
CountsReplacementsFrom(sorted, k, content) ==
    IF k > Len(sorted) THEN TRUE
    ELSE LET r == ApplySingleRule(content, sorted[k][1], sorted[k][2])
         IN  /\ r[2] = MaxNonOverlapping(content, sorted[k][1])
             /\ Len(r[1]) = Len(content) + r[2] * (Len(sorted[k][2]) - Len(sorted[k][1]))
             /\ Cardinality(SurvivingSource(content) \ SurvivingSource(r[1]))
                    <= r[2] * Len(sorted[k][1])
             /\ CountsReplacementsFrom(sorted, k + 1, r[1])

\* The sum over the rules from the k-th on of the occurrences of the
\* rule's term in the content the rule is applied to.
RECURSIVE SumReplacedFrom(_, _, _)
SumReplacedFrom(sorted, k, content) ==
    IF k > Len(sorted) THEN 0
    ELSE MaxNonOverlapping(content, sorted[k][1])
            + SumReplacedFrom(sorted, k + 1,
                              ApplySingleRule(content, sorted[k][1], sorted[k][2])[1])

\* C15: every rule replaces all non-overlapping occurrences of its term,
\* the returned count is the sum over the rules of the occurrences replaced,
\* and with a single rule it is the number of non-overlapping occurrences of
\* the term in the input.
C15_CountIsSumOfReplaced ==
    Applied =>
        /\ CountsReplacementsFrom(GetSortedRules(arRules), 1, arContent)
        /\ FirstCount = SumReplacedFrom(GetSortedRules(arRules), 1, arContent)
        /\ Len(arRules) = 1 =>
                /\ FirstCount = MaxNonOverlapping(arContent, arRules[1][1])
                /\ Cardinality(SurvivingSource(FirstOutput))
                        = Len(arContent) - FirstCount * Len(arRules[1][1])

\* A single rule whose term occurs at overlapping places, and one whose
\* term occurs twice.
C15_Witness ==
    /\ Applied
    /\ Len(arRules) = 1
    /\ FirstCount = 2
    /\ Cardinality(AllOccurrences(arContent, arRules[1][1])) > FirstCount

\* ------------------------------------------------------------------------
\* Properties of the rule store
\* ------------------------------------------------------------------------

\* The last call on the rule store.
LastCall(op) == opResult.op = op

\* C16: get_rules returns a copy: when the caller has set or deleted an
\* entry of the mapping it got, the store's rules and its file are what they
\* were, and so is what apply_redactions, get_rules and save_rules make of
\* them.
C16_GetRulesIsCopy ==
    LastCall("caller_changes_mapping") =>
        /\ ruleVars = opResult.before
        /\ GetRules(mgrRules).rules = opResult.before[2]
        /\ SaveRules(mgrRules, "saved").file = opResult.before[2]
        /\ ApplyRedactions(mgrRules, Tag(InitialText))
                = ApplyRedactions(opResult.before[2], Tag(InitialText))

\* The caller has changed the mapping it got and the store holds rules.
C16_Witness ==
    /\ LastCall("caller_changes_mapping")
    /\ returned.rules # mgrRules
    /\ mgrRules # <<>>

\* C17: add_rule with an empty term returns failure and leaves the rules
\* and the file as they were; the rules never hold the empty term nor two
\* rules for one term, and an added term has the replacement given last.
C17_EmptyTermRejected ==
    /\ LastCall("add_rule") /\ opResult.args[1] = <<>> =>
            ~opResult.value /\ ruleVars = opResult.before
    /\ <<>> \notin RuleTerms(mgrRules)
    /\ \A i, j \in DOMAIN mgrRules : i # j => mgrRules[i][1] # mgrRules[j][1]
    /\ LastCall("add_rule") /\ opResult.args[1] # <<>> =>
            \A i \in DOMAIN mgrRules :
                mgrRules[i][1] = opResult.args[1] => mgrRules[i][2] = opResult.args[2]

\* add_rule with an empty term has returned, on a store that holds rules.
C17_Witness ==
    /\ LastCall("add_rule")
    /\ opResult.args[1] = <<>>
    /\ mgrRules # <<>>

\* C18: when add_rule or remove_rule has returned, with success or failure,
\* the rules in memory are the rules recorded in the file.
C18_Claim ==
    LastCall("add_rule") \/ LastCall("remove_rule") =>
        rulesFileState = "json" /\ mgrRules = rulesFile

\* C19: opening the store on a file that exists and cannot be parsed does
\* not yield a usable store.
C19_Claim ==
    LastCall("RedactionManager") /\ opResult.before[3] = "unparsable" => ~opResult.value

\* add_rule has found the file unparsable and has written over it.
C19_Overwritten ==
    /\ LastCall("add_rule")
    /\ opResult.before[3] = "unparsable"
    /\ opResult.value
    /\ rulesFileState = "json"

\* ------------------------------------------------------------------------
\* Properties of the ledger
\* ------------------------------------------------------------------------

\* C20: after a successful refresh every concept directory of the working
\* tree has its ledger entry (the ledger is keyed by concept name), and each
\* concept that had none before the refresh is QUARANTINED with reviewer
\* none and reason none.
C20_RefreshTracksAll ==
    LastCall("refresh_from_github") /\ opResult.value =>
        \A c \in SetOf(ScanAllConcepts(localFiles)) :
            /\ c \in DOMAIN localLedger
            /\ c \notin opResult.before =>
                    /\ localLedger[c].concept_name = c
                    /\ localLedger[c].status = "QUARANTINED"
                    /\ localLedger[c].reviewer = None
                    /\ localLedger[c].reason = None

\* A refresh has succeeded and has added an entry next to one it found.
C20_Witness ==
    /\ LastCall("refresh_from_github") /\ opResult.value
    /\ \E c, d \in DOMAIN localFiles :
            c \notin opResult.before /\ d \in opResult.before

\* The status-change call that has just returned success for concept c.
Transitioned(c) ==
    /\ opResult.op \in {call[1] : call \in TransitionCalls}
    /\ opResult.args = <<c>>
    /\ opResult.value = TRUE

\* The last call cloned the remote: its _setup_git_repo returned no error.
LastCallSynced(op) == LastCall(op) /\ ~SetupFailed(opResult.sync)

\* What the reads return for concept c is what the remote ledger holds.
ReadsFollowRemote(c) ==
    /\ Transitioned(c) => StatusOf(remoteLedger, c) = opResult.op
    /\ LastCallSynced("get_authorization_status") /\ opResult.args = <<c>> =>
            opResult.value = StatusOf(remoteLedger, c)
    /\ LastCallSynced("get_approved_concepts") =>
            (c \in opResult.value <=> StatusOf(remoteLedger, c) = "AUTHORIZED")
    /\ LastCall("get_approved_concepts") /\ c \in opResult.value =>
            StatusOf(remoteLedger, c) = "AUTHORIZED"
    /\ LastCall("publishing_review_quarantine") /\ c \in opResult.value =>
            StatusOf(remoteLedger, c) \in {None, "QUARANTINED"}

\* The remote status of concept c changes only in a status change of c that
\* returns success.
OnlyTransitionsChangeStatus(c) ==
    StatusOf(remoteLedger', c) # StatusOf(remoteLedger, c) =>
        /\ opResult'.op \in {call[1] : call \in TransitionCalls}
        /\ opResult'.args = <<c>>
        /\ opResult'.value = TRUE

LastTransition(c) ==
    /\ opResult.op \in {call[1] : call \in TransitionCalls}
    /\ opResult.args = <<c>>

\* C22: a status change that has written the ledger of the clone and has not
\* brought the remote ledger to it returns failure; a status change that
\* returns success leaves the remote ledger equal to the ledger it wrote,
\* with the new status for the concept.
C22_SuccessMeansPushed ==
    \A c \in Concepts :
        LastTransition(c) =>
            /\ localLedger # remoteLedger => opResult.value = FALSE
            /\ opResult.value =>
                    /\ StatusOf(remoteLedger, c) = opResult.op
                    /\ remoteLedger = localLedger

\* A status change has written the entry in the clone, its push has failed,
\* and it has returned failure.
C22_Witness ==
    \E c \in Concepts :
        /\ LastTransition(c)
        /\ StatusOf(localLedger, c) = opResult.op
        /\ StatusOf(remoteLedger, c) # opResult.op
        /\ opResult.value = FALSE

\* C23: what a status change returns when it has written the entry in the
\* clone and the remote ledger has not followed differs from what a status
\* change returns when it fails before writing (clone failed, save failed).
C23_Claim ==
    \A c \in Concepts :
        /\ LastTransition(c)
        /\ StatusOf(localLedger, c) = opResult.op
        /\ localLedger # remoteLedger
        => opResult.value # TransitionResult(FALSE, FALSE)

\* What a ledger operation returns when it stops after _setup_git_repo.
AbortValue(op) ==
    CASE op = "get_authorization_status" -> None
      [] op \in {"get_approved_concepts", "publishing_review_quarantine",
                  "_get_authorized_concept_names"} -> {}
      [] OTHER -> FALSE

\* The step is a ledger operation that stops after _setup_git_repo: it
\* writes no entry, pushes nothing and returns no data.
Aborts ==
    /\ remoteLedger' = remoteLedger
    /\ localLedger' = EmptyDict
    /\ opResult'.value = AbortValue(opResult'.op)

LastCallFailed ==
    /\ opResult.op \in {call[1] : call \in TransitionCalls} \cup {"refresh_from_github"}
    /\ opResult.value = FALSE

\* C26: a concept that has an entry in the ledger that an operation leaves
\* when it does not fail has an entry in the ledger the next operation reads
\* (the ledger of its clone, when its _setup_git_repo returns no error),
\* whichever of refresh, listing, status read and status change the two
\* operations are.
C26_Claim ==
    [][~LastCallFailed /\ opResult'.sync # "clone_failed" =>
            \A c \in DOMAIN localLedger : c \in opResult'.before]_vars

\* C30: when a status change of a concept has returned success, the
\* reviewer and the reason of its entry are the ones of that call (none when
\* the call names none), whatever earlier status changes wrote.
C30_Claim ==
    \A c \in Concepts :
        Transitioned(c) =>
            \E call \in TransitionCalls :
                /\ call[1] = opResult.op
                /\ Get(remoteLedger[c], "reviewer", None) = call[2]
                /\ Get(remoteLedger[c], "reason", None) = call[3]

\* The ledger the step's operation started from: the remote ledger it has
\* cloned, or the ledger of the clone it has found.
StartedFrom == IF opResult'.sync = "reused" THEN localLedger ELSE remoteLedger

\* The step is a refresh, a listing, a status read or the ledger read of a
\* publish run.
NoTransitionStep == opResult'.op \notin {call[1] : call \in TransitionCalls}

C25_Claim ==
    pc \in {"pl_stage", "pl_upload"} =>
        SetOf(authorized) = SetOf(AuthorizedNames(remoteLedger))

\* ------------------------------------------------------------------------
\* Properties of the result of a publish run
\* ------------------------------------------------------------------------

\* The pipeline ran on a non-empty authorized list and a step of it failed:
\* nothing was staged, the upload failed, or an exception was caught.
PublicationStepFailed ==
    /\ ~IsNone(pubResult)
    /\ authorized # <<>>
    /\ ~Get(pubResult, "success", FALSE)

\* C27: when a step of the publication has failed, the result the caller of
\* the run gets, from the workflow or from the pipeline, has success false
\* and carries an error text.
C27_Claim ==
    pc = "done" /\ PublicationStepFailed =>
        /\ Get(result, "success", TRUE) = FALSE
        /\ Get(result, "error", None) # None

\* C28: every failure result of publish_to_public_branch has
\* concepts_processed = 0 and total_redactions = 0.
C28_Claim ==
    ~IsNone(pubResult) /\ ~Get(pubResult, "success", FALSE) =>
        /\ pubResult.concepts_processed = 0
        /\ pubResult.total_redactions = 0

\* ------------------------------------------------------------------------
\* Properties of link rewriting
\* ------------------------------------------------------------------------

\* [a](/concepts/O_itself.md)
PublicLink ==
    <<"[", "a", "]", "(", "/", "c", "o", "n", "c", "e", "p", "t", "s", "/", "O", "_", "i", "t", "s", "e", "l", "f", ".", "m", "d", ")">>

\* C29: the staged content of a concept holds [a](/concepts/O_itself.md)
\* once for every [a](../O/O_itself.md) of the source, whatever other links
\* the source holds, and holds no link target that starts with ../
C29_Claim ==
    StageRan =>
        \A c \in DOMAIN staging :
            /\ CountFrom(staging[c], PublicLink, 1) = CountFrom(localFiles[c], CanonicalLink, 1)
            /\ CountFrom(staging[c], <<"]">> \o LinkOpen, 1) = 0

\* ------------------------------------------------------------------------
\* Properties of the staging of unreadable files
\* ------------------------------------------------------------------------

\* C32: after the staging step an authorized concept whose source file
\* cannot be read is not staged and not in the processed list, and the run
\* does not upload a file for it.
C32_Claim ==
    StageRan =>
        \A c \in SetOf(authorized) :
            c \in DOMAIN localFiles /\ localFiles[c] = UnreadableFile =>
                /\ c \notin DOMAIN staging
                /\ c \notin SetOf(processed)
                /\ c \notin uploaded

\* The run has put an empty file on the public branch for a concept whose
\* source file it could not read.
C32_EmptyPublished ==
    /\ pc = "done"
    /\ \E c \in uploaded :
            /\ localFiles[c] = UnreadableFile
            /\ public[c] = <<>>

\* ------------------------------------------------------------------------
\* Properties of the staging directory across runs
\* ------------------------------------------------------------------------

GetStep(c) ==
    /\ opResult.op # "requests.get"
    /\ opResult'.op = "requests.get" /\ opResult'.args = <<c>>

\* The PUT of the upload of concept c is answered in this step.
PutStep(c) ==
    /\ opResult.op = "requests.get" /\ opResult.args = <<c>>
    /\ opResult'.op = "_upload_file_to_github"

\* C34: the token an upload reads is the one of the file on the public
\* branch at that time (none when there is no file, or no answer 200); when
\* the file on the public branch at the time of the PUT is not the one the
\* token was read from, the public branch is left as it is and the upload
\* returns failure; an upload that returns success has replaced the very
\* file it read, or created a file where it found none.
C34_StaleWriteRejected ==
    [][\A c \in Concepts :
        /\ GetStep(c) => opResult'.value \in {RemoteToken(public, c), NoneResult}
        /\ PutStep(c) /\ RemoteToken(public, c) # opResult.value =>
                public' = public /\ ~opResult'.value /\ uploaded' = uploaded
        /\ PutStep(c) /\ opResult'.value =>
                /\ RemoteToken(public, c) = opResult.value
                /\ public' = Put(public, c, staging[c])
                /\ uploaded' = uploaded \cup {c}]_vars

\* An upload has read the token of a file, another writer has replaced the
\* file, and the PUT has been rejected.
C34_Witness ==
    /\ opResult.op = "_upload_file_to_github"
    /\ opResult.status = 409
    /\ ~opResult.value
    /\ ~IsNone(opResult.sha)
    /\ \E c \in DOMAIN public \cap DOMAIN staging :
            /\ opResult.args = <<c>>
            /\ Untag(public[c]) # Untag(staging[c])
            /\ c \notin uploaded

\* ------------------------------------------------------------------------
\* Properties of the publication metadata
\* ------------------------------------------------------------------------

\* The run has returned success.
RunSucceeded == ~IsNone(pubResult) /\ pubResult.success

\* The metadata written by the run records the run's processed concepts in
\* processing order, their number, the run's total of redactions and the
\* size of the rule set.
MetadataRecordsRun ==
    /\ ~IsNone(metadata)
    /\ metadata.concepts = processed
    /\ metadata.total_concepts = Len(processed)
    /\ metadata.total_redactions = totalRedactions
    /\ metadata.redaction_rules_count = Len(rules)

\* C35: when a publish run has succeeded, publication_metadata.json is a
\* file of the public branch, and the metadata records the run's processed
\* concepts in processing order, their number, the total of redactions and
\* the size of the rule set.
C35_Claim ==
    pc = "done" /\ RunSucceeded =>
        MetadataPath \in PublicPaths /\ MetadataRecordsRun

\* A run has succeeded and published files; the metadata that records it is
\* in the clone and not among the files of the public branch.
C35_MetadataInCloneOnly ==
    /\ pc = "done" /\ RunSucceeded
    /\ uploaded # {}
    /\ totalRedactions > 0
    /\ MetadataRecordsRun
    /\ MetadataPath \notin PublicPaths

\* ------------------------------------------------------------------------
\* Properties of the rules in force at staging
\* ------------------------------------------------------------------------

\* C36: when the staging step of a run starts, the rule set of the run's
\* RedactionManager, which the step applies, is the rule set redacted.json
\* holds, the rules the redaction-authoring step has written in this run
\* included.
C36_Claim == pc = "pl_stage" => rules = rulesFile

\* A run of the workflow has published: the agent had written a rule to
\* redacted.json before the staging step, the run staged with the rule set
\* it loaded when it started, and the term of the agent's rule is in a file
\* on the public branch.
C36_AgentRuleNotApplied ==
    /\ pc = "done" /\ entry = "workflow" /\ RunSucceeded
    /\ rules = <<>>
    /\ \E i \in 1..Len(rulesFile), c \in uploaded :
            /\ Contains(Untag(public[c]), rulesFile[i][1])
            /\ public[c] = staging[c]

\* ------------------------------------------------------------------------
\* Properties of two status changes at the same time
\* ------------------------------------------------------------------------

\* The entry of concept c in a ledger, None when it has none.
EntryOf(data, c) == IF c \in DOMAIN data THEN data[c] ELSE EmptyDict

\* The entry the status change of process p writes for its concept.
EntryWritten(p) ==
    UpdateConceptStatus(race.start, p, race.proc[p].call[1], race.proc[p].call[2],
                        race.proc[p].call[3])[p]

Returned37(p, value) == race.proc[p].pc = "done" /\ race.proc[p].value = value

\* C37: of two processes that change the status of different concepts at
\* the same time, one that has returned success has its entry in the remote
\* ledger, and the concept of one that has returned failure has the entry
\* it had before; so neither loses its update to the other.
C37_Claim ==
    \A p \in Processes :
        /\ Returned37(p, TRUE) => EntryOf(remoteLedger, p) = EntryWritten(p)
        /\ Returned37(p, FALSE) => EntryOf(remoteLedger, p) = EntryOf(race.start, p)

\* On one machine: both processes have returned; one returned success and
\* the remote ledger has the entry its concept had before; the other
\* returned failure and the remote ledger has the entry it wrote.
C37_LostUpdate ==
    /\ race.shared
    /\ \E p, q \in Processes :
        /\ Returned37(p, TRUE) /\ Returned37(q, FALSE)
        /\ EntryOf(remoteLedger, p) = EntryOf(race.start, p)
        /\ EntryOf(remoteLedger, p) # EntryWritten(p)
        /\ EntryOf(remoteLedger, q) = EntryWritten(q)
        /\ EntryOf(remoteLedger, q) # EntryOf(race.start, q)

\* ------------------------------------------------------------------------
\* Properties of preview_redactions
\* ------------------------------------------------------------------------

\* C38: when the preview endpoint has answered for a content, the rule set
\* and the content are what they were, and the total_redactions it returned
\* is the number of replacements apply_redactions returns for that content
\* with those rules.
C38_Claim ==
    LastCall("preview_redactions") /\ opResult.value.success =>
        /\ arRules = opResult.before
        /\ arContent = opResult.args[1]
        /\ opResult.value.total_redactions = ApplyRedactions(arRules, arContent)[2]

\* The term of one rule is inside the term of another, the content holds
\* the longer term once: the preview reports two matches and
\* apply_redactions, called on the same content, made one replacement.
C38_SubstringCountedTwice ==
    /\ LastCall("preview_redactions")
    /\ arContent = Tag(<<"a", "b">>)
    /\ \E i, j \in DOMAIN arRules :
            /\ arRules[i][1] = <<"a", "b">> /\ arRules[i][2] = <<"y">>
            /\ arRules[j][1] = <<"a">>
    /\ Len(arRules) = 2
    /\ opResult.value.total_redactions = 2
    /\ arResults # <<>> /\ arResults[1][2] = 1

\* ------------------------------------------------------------------------
\* Properties of the entries a status change leaves alone
\* ------------------------------------------------------------------------

\* This step is a status change of concept c.
TransitionStepOf(c) ==
    /\ opResult'.op \in {call[1] : call \in TransitionCalls}
    /\ opResult'.args = <<c>>

\* C39: in a status change of concept c every other concept has, in the
\* remote ledger after it, the entry it had in the remote ledger before it
\* (pushed or not), and none loses its entry; when the status change
\* returns success the same holds of the ledger it wrote in its clone.
C39_OtherEntriesKept ==
    [][\A c \in Concepts : TransitionStepOf(c) =>
        \A d \in Concepts \ {c} :
            /\ d \in DOMAIN remoteLedger => d \in DOMAIN remoteLedger'
            /\ EntryOf(remoteLedger', d) = EntryOf(remoteLedger, d)
            /\ opResult'.value =>
                    EntryOf(localLedger', d) = EntryOf(remoteLedger, d)]_vars

\* A status change of a concept has returned success and the remote ledger
\* holds its entry and, for another concept, an entry of another status
\* with a reviewer.
C39_Witness ==
    \E c \in Concepts : \E d \in DOMAIN remoteLedger \ {c} :
        /\ Transitioned(c)
        /\ remoteLedger[d].status # remoteLedger[c].status
        /\ Get(remoteLedger[d], "reviewer", None) # None

\* ------------------------------------------------------------------------
\* Properties of the files of the public branch
\* ------------------------------------------------------------------------

\* C40: no step of a publish run or of a status change removes a file from
\* the public branch, and the file of a concept that is not AUTHORIZED in
\* the ledger of the clone stays as it was last published.
C40_PublicOnlyGrows ==
    [][\A c \in DOMAIN public :
        /\ c \in DOMAIN public'
        /\ StatusOf(localLedger', c) # "AUTHORIZED" => public'[c] = public[c]]_vars

\* A run has published after a reviewer rejected a concept that an earlier
\* run had published: the run staged and uploaded other files, and the
\* file of the rejected concept is on the public branch.
C40_Witness ==
    /\ pc = "done" /\ RunSucceeded
    /\ uploaded # {}
    /\ \E c \in DOMAIN public :
            /\ StatusOf(remoteLedger, c) = "REJECTED"
            /\ StatusOf(localLedger, c) = "REJECTED"
            /\ c \notin DOMAIN staging
            /\ c \notin uploaded

====
